---- MODULE Spec2Model ----
(***************************************************************************)
(* Synchronisation core of league-of-legends-rewind: the Record Store, the *)
(* Atomic Record Processor (sync_match_data_atomic), the Sub-record        *)
(* Processor (sync_match_timeline_atomic), the retry wrapper               *)
(* (reliable_task), the gap analysis of the recovery run and the           *)
(* rate-limited batch scheduler (_process_pending_matches).                *)
(*                                                                         *)
(* Spec      : the store and the two processors, one invocation at a time, *)
(*             with the gap analysis run between invocations.              *)
(* SpecSched : the batch scheduler with its worker pool and a clock.       *)
(* SpecAgg   : the aggregator under increments and full recomputations.    *)
(* SpecRun   : the orchestrator runs and the jobs they submit.             *)
(* SpecConc  : the processors on two workers at once, and the cleanup.     *)
(* SpecListing : the paginated listing of a player's match ids.            *)
(***************************************************************************)
EXTENDS Integers, Sequences, FiniteSets, TLC

VARIABLES
    matchTbl,       \* Match rows
    summonerTbl,    \* Summoner rows
    partTbl,        \* MatchParticipant rows
    timelineTbl,    \* MatchTimeline rows
    statsTbl,       \* PlayerYearlyStats rows
    timelineQueue,  \* sync_match_timeline_atomic.delay() calls not yet run
    job,            \* the task invocation being executed
    apiCalls,       \* external fetches issued so far
    invocations,    \* task invocations started so far
    gap,            \* what the _analyze_data_gaps call just made returned
    pre,            \* history: Match/MatchParticipant rows when the invocation began
    hist,           \* history: aggregate rows after the first success of a match id
    sched,          \* locals of _process_pending_matches
    jobs,           \* state of each job submitted by the scheduler
    now,            \* clock, in rate windows of W seconds
    calls,          \* external fetches in the current rate window
    run,            \* the orchestrator run: its step, locals and result
    rjobs,          \* the jobs the orchestrator runs have submitted
    agg,            \* history: the calls made to the aggregator
    conc,           \* the concurrent workers: their locals and the store's sequences
    listing         \* the call of get_match_ids_by_puuid: its arguments and locals

storeVars == <<matchTbl, summonerTbl, partTbl, timelineTbl, statsTbl>>
procVars == <<timelineQueue, job, apiCalls, invocations, gap, pre, hist>>
schedVars == <<sched, jobs, now, calls>>
runVars == <<run, rjobs, agg, conc, listing>>
vars == <<matchTbl, summonerTbl, partTbl, timelineTbl, statsTbl, timelineQueue,
          job, apiCalls, invocations, gap, pre, hist, sched, jobs, now, calls,
          run, rjobs, agg, conc, listing>>

None == "None"

(***************************************************************************)
(* Bounds of the model.                                                    *)
(***************************************************************************)
MaxInvocations == 3
MaxIds == 2

(***************************************************************************)
(* The external data source.  Match bodies do not change between fetches.  *)
(***************************************************************************)
MatchIds == {"M1", "M2"}
Puuids == {"P1", "P2"}
DEFAULT_MATCH_YEAR == 2025
\* The platform argument of the tasks ('na1' unless the caller says otherwise).
DefaultPlatform == "na1"

Entry(p, w, k, d, a, g, cs, ncs, dmg, ch) ==
    [puuid |-> p, win |-> w, kills |-> k, deaths |-> d, assists |-> a,
     goldEarned |-> g, totalMinionsKilled |-> cs, neutralMinionsKilled |-> ncs,
     totalDamageDealtToChampions |-> dmg, championName |-> ch]

\* get_match: the body the source returns for a match id.  gameCreation is
\* an epoch-milliseconds integer for M1 and an ISO string for M2; the second
\* participant of M2 carries no puuid.  M3 is a match of P2 alone, who did
\* not die in it.
RemoteBody(m) ==
    IF m = "M3"
    THEN [gameCreation |-> [fmt |-> "iso", year |-> 2025],
          participants |-> << Entry("P2", TRUE, 4, 0, 2, 9, 6, 1, 8, "Zed") >>]
    ELSE IF m = "M1"
    THEN [gameCreation |-> [fmt |-> "epoch_ms", year |-> 2025],
          participants |-> << Entry("P1", TRUE, 2, 0, 1, 10, 5, 1, 7, "Ahri")
                                  @@ [role |-> "SOLO", lane |-> "MIDDLE"],
                              Entry("P2", FALSE, 1, 3, 0, 8, 4, 0, 3, "Zed") >>]
    ELSE [gameCreation |-> [fmt |-> "iso", year |-> 2025],
          participants |-> << Entry("P1", FALSE, 0, 1, 2, 6, 3, 2, 4, "Lux"),
                              Entry(None, TRUE, 5, 5, 5, 5, 5, 5, 5, "Jinx") >>]

\* Outcomes of an external fetch and of a store write.
ApiOutcomes == {"ok", "transient", "permanent"}
StoreOutcomes == {"ok", "transient", "permanent"}

(***************************************************************************)
(* The Record Store.  Every table is a set of rows with a primary key.     *)
(***************************************************************************)
NextPk(tbl) ==
    IF tbl = {} THEN 1
    ELSE 1 + (CHOOSE n \in {r.pk : r \in tbl} : \A r \in tbl : r.pk <= n)

\* A nullable DateTimeField: NULL, or a datetime of which the year is kept.
NullDatetime == [null |-> TRUE, year |-> 0]

\* django.utils.dateparse.parse_datetime(str(gameCreation)): a string of
\* digits is not a datetime and parses to None; an ISO string parses.
ParseDatetime(v) ==
    IF v.fmt = "iso" THEN [null |-> FALSE, year |-> v.year] ELSE NullDatetime

UpdateOrCreateMatch(tbl, mid, body) ==
    LET found == {r \in tbl : r.match_id = mid}
        gc == ParseDatetime(body.gameCreation)
    IN  IF found = {}
        THEN tbl \cup {[pk |-> NextPk(tbl), match_id |-> mid, game_creation |-> gc,
                        platform |-> DefaultPlatform]}
        ELSE {IF r \in found
              THEN [r EXCEPT !.game_creation = gc, !.platform = DefaultPlatform]
              ELSE r : r \in tbl}

MatchRow(tbl, mid) ==
    CHOOSE r \in tbl : r.match_id = mid

GetOrCreateSummonerOverwriting(tbl, e) ==
    {r \in tbl : r.puuid # e.puuid}
        \cup {[pk |-> IF \E r \in tbl : r.puuid = e.puuid
                      THEN (CHOOSE r \in tbl : r.puuid = e.puuid).pk
                      ELSE NextPk(tbl),
               puuid |-> e.puuid, summoner_id |-> e.puuid, name |-> "Unknown",
               tag_line |-> None, platform |-> DefaultPlatform]}

\* Summoner.objects.get_or_create(puuid=..., defaults={...}): the defaults
\* are used only when the row is created.
GetOrCreateSummoner(tbl, e) ==
    IF \E r \in tbl : r.puuid = e.puuid
    THEN tbl
    ELSE tbl \cup {[pk |-> NextPk(tbl), puuid |-> e.puuid, summoner_id |-> e.puuid,
                    name |-> "Unknown", tag_line |-> None,
                    platform |-> DefaultPlatform]}

SummonerRow(tbl, p) ==
    CHOOSE r \in tbl : r.puuid = p

\* participant_data.get(key): None when the body has no such key.
Get(e, key) ==
    IF key \in DOMAIN e THEN e[key] ELSE None

ParticipantFields(e, spk) ==
    [summoner |-> spk, role |-> Get(e, "role"), lane |-> Get(e, "lane"), win |-> e.win, kills |-> e.kills, deaths |-> e.deaths,
     assists |-> e.assists, gold_earned |-> e.goldEarned,
     total_minions_killed |-> e.totalMinionsKilled,
     neutral_minions_killed |-> e.neutralMinionsKilled,
     damage_to_champions |-> e.totalDamageDealtToChampions,
     champion_name |-> e.championName]

NewParticipant(tbl, mpk, e, spk) ==
    [pk |-> NextPk(tbl), match |-> mpk, puuid |-> e.puuid] @@ ParticipantFields(e, spk)

CreateMatchParticipantAlwaysInsert(tbl, mpk, e, spk) ==
    tbl \cup {NewParticipant(tbl, mpk, e, spk)}

UpdateOrCreateParticipant(tbl, mpk, e, spk) ==
    LET found == {r \in tbl : r.match = mpk /\ r.puuid = e.puuid}
    IN  IF found = {}
        THEN tbl \cup {NewParticipant(tbl, mpk, e, spk)}
        ELSE {IF r \in found
              THEN [pk |-> r.pk, match |-> r.match, puuid |-> r.puuid]
                       @@ ParticipantFields(e, spk)
              ELSE r : r \in tbl}

ParticipantRow(tbl, mpk, p) ==
    CHOOSE r \in tbl : r.match = mpk /\ r.puuid = p

(***************************************************************************)
(* The Incremental Aggregator.  A float is kept as a reduced fraction.     *)
(***************************************************************************)
RECURSIVE Gcd(_, _)
Gcd(a, b) ==
    IF b = 0 THEN a ELSE Gcd(b, a % b)

Frac(n, d) ==
    IF n = 0 THEN <<0, 1>> ELSE <<n \div Gcd(n, d), d \div Gcd(n, d)>>

KeepDerivedStats(s) ==
    s

\* PlayerYearlyStats.calculate_derived_stats
CalculateDerivedStats(s) ==
    IF s.total_matches > 0
    THEN [s EXCEPT
            !.win_rate = Frac(s.wins * 100, s.total_matches),
            !.average_kills = Frac(s.total_kills, s.total_matches),
            !.average_deaths = Frac(s.total_deaths, s.total_matches),
            !.average_assists = Frac(s.total_assists, s.total_matches),
            !.average_gold_per_match = Frac(s.total_gold_earned, s.total_matches),
            !.average_cs_per_match =
                Frac(s.total_minions_killed + s.total_neutral_minions_killed,
                     s.total_matches),
            !.kda_ratio = IF s.total_deaths > 0
                          THEN Frac(s.total_kills + s.total_assists, s.total_deaths)
                          ELSE Frac(s.total_kills + s.total_assists, 1)]
    ELSE [s EXCEPT
            !.win_rate = <<0, 1>>, !.average_kills = <<0, 1>>,
            !.average_deaths = <<0, 1>>, !.average_assists = <<0, 1>>,
            !.average_gold_per_match = <<0, 1>>, !.average_cs_per_match = <<0, 1>>,
            !.kda_ratio = <<0, 1>>]

\* The row get_or_create_stats creates: the defaults of the call and of the model.
NewStats(tbl, spk, year) ==
    [pk |-> NextPk(tbl), summoner |-> spk, year |-> year,
     total_matches |-> 0, wins |-> 0, losses |-> 0,
     total_kills |-> 0, total_deaths |-> 0, total_assists |-> 0,
     total_gold_earned |-> 0, total_minions_killed |-> 0,
     total_neutral_minions_killed |-> 0, total_damage_to_champions |-> 0,
     unique_champions_played |-> 0,
     most_played_champion |-> None, most_played_champion_count |-> 0,
     unique_roles_played |-> 0, unique_lanes_played |-> 0,
     win_rate |-> <<0, 1>>, kda_ratio |-> <<0, 1>>, average_kills |-> <<0, 1>>,
     average_deaths |-> <<0, 1>>, average_assists |-> <<0, 1>>,
     average_gold_per_match |-> <<0, 1>>, average_cs_per_match |-> <<0, 1>>]

GetOrCreateStats(tbl, spk, year) ==
    IF \E s \in tbl : s.summoner = spk /\ s.year = year
    THEN tbl
    ELSE tbl \cup {NewStats(tbl, spk, year)}

StatsRow(tbl, spk, year) ==
    CHOOSE s \in tbl : s.summoner = spk /\ s.year = year

\* The counters and the diversity count after adding participant row p.
Incremented(s, p, ptbl) ==
    LET existing_champions ==
            {r.champion_name : r \in {q \in ptbl : /\ q.summoner = s.summoner
                                                   /\ q.champion_name # None
                                                   /\ q.pk # p.pk}}
    IN  [s EXCEPT
            !.total_matches = @ + 1,
            !.wins = IF p.win THEN @ + 1 ELSE @,
            !.losses = IF p.win THEN @ ELSE @ + 1,
            !.total_kills = @ + p.kills,
            !.total_deaths = @ + p.deaths,
            !.total_assists = @ + p.assists,
            !.total_gold_earned = @ + p.gold_earned,
            !.total_minions_killed = @ + p.total_minions_killed,
            !.total_neutral_minions_killed = @ + p.neutral_minions_killed,
            !.total_damage_to_champions = @ + p.damage_to_champions,
            !.unique_champions_played =
                IF p.champion_name # None /\ p.champion_name \notin existing_champions
                THEN @ + 1 ELSE @]

\* PlayerYearlyStatsAggregator.increment_stats, one transaction.
IncrementStats(tbl, ptbl, spk, year, p) ==
    LET t == GetOrCreateStats(tbl, spk, year)
        s == StatsRow(t, spk, year)
    IN  (t \ {s}) \cup {CalculateDerivedStats(Incremented(s, p, ptbl))}

CounterFields ==
    {"total_matches", "wins", "losses", "total_kills", "total_deaths", "total_assists",
     "total_gold_earned", "total_minions_killed", "total_neutral_minions_killed",
     "total_damage_to_champions"}

\* The counters of every aggregate row, by (summoner, year).
Counters(tbl) ==
    {<<s.summoner, s.year, [f \in CounterFields |-> s[f]]>> : s \in tbl}

(***************************************************************************)
(* The full recomputation: calculate_stats_from_matches and update_stats.  *)
(***************************************************************************)
\* _get_empty_stats
EmptyStats ==
    [total_matches |-> 0, wins |-> 0, losses |-> 0,
     total_kills |-> 0, total_deaths |-> 0, total_assists |-> 0,
     total_gold_earned |-> 0, total_minions_killed |-> 0,
     total_neutral_minions_killed |-> 0, total_damage_to_champions |-> 0,
     unique_champions_played |-> 0,
     most_played_champion |-> None, most_played_champion_count |-> 0,
     unique_roles_played |-> 0, unique_lanes_played |-> 0,
     win_rate |-> <<0, 1>>, kda_ratio |-> <<0, 1>>, average_kills |-> <<0, 1>>,
     average_deaths |-> <<0, 1>>, average_assists |-> <<0, 1>>,
     average_gold_per_match |-> <<0, 1>>, average_cs_per_match |-> <<0, 1>>]

\* sum(p.<field> for p in participants)
RECURSIVE SumOf(_, _)
SumOf(rows, field) ==
    IF rows = {} THEN 0
    ELSE LET r == CHOOSE x \in rows : TRUE
         IN  r[field] + SumOf(rows \ {r}, field)

\* Counter(champions).most_common(1)[0][0]: the champion played most often,
\* the one met first (rows in primary-key order) among equals.
MostCommon(rows) ==
    LET named == {r \in rows : r.champion_name # None}
        champs == {r.champion_name : r \in named}
        count(c) == Cardinality({r \in named : r.champion_name = c})
        first(c) == CHOOSE n \in {r.pk : r \in {q \in named : q.champion_name = c}} :
                        \A q \in named : q.champion_name = c => n <= q.pk
    IN  CHOOSE c \in champs :
            \A d \in champs : \/ count(c) > count(d)
                              \/ count(c) = count(d) /\ first(c) <= first(d)

AggDerivedStatsZeroKdaWithoutDeaths(s) ==
    IF s.total_matches > 0
    THEN [s EXCEPT
            !.win_rate = Frac(s.wins * 100, s.total_matches),
            !.average_kills = Frac(s.total_kills, s.total_matches),
            !.average_deaths = Frac(s.total_deaths, s.total_matches),
            !.average_assists = Frac(s.total_assists, s.total_matches),
            !.average_gold_per_match = Frac(s.total_gold_earned, s.total_matches),
            !.average_cs_per_match =
                Frac(s.total_minions_killed + s.total_neutral_minions_killed,
                     s.total_matches),
            !.kda_ratio = IF s.total_deaths > 0
                          THEN Frac(s.total_kills + s.total_assists, s.total_deaths)
                          ELSE <<0, 1>>]
    ELSE s

\* PlayerYearlyStatsAggregator._calculate_derived_stats, on the dictionary.
AggCalculateDerivedStats(s) ==
    IF s.total_matches > 0
    THEN [s EXCEPT
            !.win_rate = Frac(s.wins * 100, s.total_matches),
            !.average_kills = Frac(s.total_kills, s.total_matches),
            !.average_deaths = Frac(s.total_deaths, s.total_matches),
            !.average_assists = Frac(s.total_assists, s.total_matches),
            !.average_gold_per_match = Frac(s.total_gold_earned, s.total_matches),
            !.average_cs_per_match =
                Frac(s.total_minions_killed + s.total_neutral_minions_killed,
                     s.total_matches),
            !.kda_ratio = IF s.total_deaths > 0
                          THEN Frac(s.total_kills + s.total_assists, s.total_deaths)
                          ELSE Frac(s.total_kills + s.total_assists, 1)]
    ELSE s

\* The participant rows the recomputation scans: those of the summoner whose
\* match is on the summoner's platform and was created within the year.  A
\* match whose game_creation is NULL passes neither date comparison.
ParticipantsQuery(ptbl, mtbl, sm, year) ==
    {p \in ptbl :
        /\ p.summoner = sm.pk
        /\ \E m \in mtbl : /\ m.pk = p.match
                            /\ m.platform = sm.platform
                            /\ ~ m.game_creation.null
                            /\ m.game_creation.year >= year
                            /\ m.game_creation.year < year + 1}

\* PlayerYearlyStatsAggregator.calculate_stats_from_matches(match_ids=None)
CalculateStatsFromMatches(ptbl, mtbl, sm, year) ==
    LET participants == ParticipantsQuery(ptbl, mtbl, sm, year)
        wins == Cardinality({p \in participants : p.win})
        champions == {p.champion_name : p \in participants} \ {None}
        roles == {p.role : p \in participants} \ {None}
        lanes == {p.lane : p \in participants} \ {None}
        most == IF champions = {} THEN None ELSE MostCommon(participants)
    IN  IF participants = {} THEN EmptyStats
        ELSE AggCalculateDerivedStats(
               [EmptyStats EXCEPT
                  !.total_matches = Cardinality(participants),
                  !.wins = wins,
                  !.losses = Cardinality(participants) - wins,
                  !.total_kills = SumOf(participants, "kills"),
                  !.total_deaths = SumOf(participants, "deaths"),
                  !.total_assists = SumOf(participants, "assists"),
                  !.total_gold_earned = SumOf(participants, "gold_earned"),
                  !.total_minions_killed = SumOf(participants, "total_minions_killed"),
                  !.total_neutral_minions_killed =
                      SumOf(participants, "neutral_minions_killed"),
                  !.total_damage_to_champions =
                      SumOf(participants, "damage_to_champions"),
                  !.unique_champions_played = Cardinality(champions),
                  !.unique_roles_played = Cardinality(roles),
                  !.unique_lanes_played = Cardinality(lanes),
                  !.most_played_champion = most,
                  !.most_played_champion_count =
                      IF most = None THEN 0
                      ELSE Cardinality({p \in participants : p.champion_name = most})])

SetAttrsCountersOnly(row, calculated) ==
    [f \in DOMAIN row |-> IF f \in CounterFields THEN calculated[f] ELSE row[f]]

SetAttrsAccumulating(row, calculated) ==
    [f \in DOMAIN row |-> IF f \in CounterFields THEN row[f] + calculated[f]
                          ELSE IF f \in DOMAIN calculated THEN calculated[f]
                          ELSE row[f]]

\* for field, value in calculated_stats.items(): setattr(stats, field, value)
SetAttrs(row, calculated) ==
    [f \in DOMAIN row |-> IF f \in DOMAIN calculated THEN calculated[f] ELSE row[f]]

\* PlayerYearlyStatsAggregator.update_stats(), one transaction.
UpdateStats(tbl, ptbl, mtbl, sm, year) ==
    LET t == GetOrCreateStats(tbl, sm.pk, year)
        s == StatsRow(t, sm.pk, year)
    IN  (t \ {s}) \cup {SetAttrs(s, CalculateStatsFromMatches(ptbl, mtbl, sm, year))}

(***************************************************************************)
(* The Retry Policy Engine (reliable_task) around a task body.             *)
(***************************************************************************)
MATCH_PROCESSING_MAX_RETRIES == 5
TIMELINE_PROCESSING_MAX_RETRIES == 3

MaxRetries(task) ==
    IF task = "match" THEN MATCH_PROCESSING_MAX_RETRIES
    ELSE TIMELINE_PROCESSING_MAX_RETRIES

FirstPc(task) ==
    IF task = "match" THEN "fetch" ELSE "validate"

PropagatesUncaught(err) ==
    err # None

\* Whether an error raised inside the task body leaves the task function:
\* every body is wrapped in try/except Exception and returns
\* handle_task_error's dictionary instead.
Propagates(err) ==
    FALSE

\* The task ends its execution with error err (None: it returned a result).
\* autoretry_for = (Exception,): an exception that leaves the body is
\* retried while the retries made so far are fewer than max_retries.
Finish(j, err) ==
    IF Propagates(err) /\ j.attempts <= MaxRetries(j.task)
    THEN [j EXCEPT !.pc = FirstPc(j.task), !.attempts = @ + 1, !.idx = 1,
                   !.count = 0, !.err = err]
    ELSE [j EXCEPT !.pc = "done", !.err = err, !.success = (err = None)]

IdleJob ==
    [task |-> None, pc |-> "idle", mid |-> None, puuid |-> None, idx |-> 0,
     count |-> 0, attempts |-> 0, err |-> None, success |-> FALSE,
     timeline_synced |-> FALSE, status |-> None, fetched |-> None,
     message |-> None, enqueue |-> None, incr_failed |-> {}]

(***************************************************************************)
(* The Atomic Record Processor: sync_match_data_atomic, step by step.      *)
(***************************************************************************)
Body == RemoteBody(job.mid)

\* The value of gap while no analysis result is at hand: the result is a local
\* of the caller and is gone once the caller goes on to start a task.
NoGap ==
    [requested |-> << >>, present |-> {}, missingRecords |-> << >>,
     missingSubRecords |-> {}]

\* The store as the invocation found it, before any invocation was started.
NoPre ==
    [matches |-> {}, participants |-> {}, summoners |-> {}, stats |-> {},
     timelines |-> {}, queue |-> << >>]

\* A step of the running invocation leaves the scheduler alone.
ProcStep ==
    UNCHANGED <<gap, invocations, schedVars, runVars>>

\* The task is started (by .delay) for match id m on behalf of player p.
StartMatchTask(m, p) ==
    /\ job.pc \in {"idle", "done"}
    /\ invocations < MaxInvocations
    /\ invocations' = invocations + 1
    /\ job' = [IdleJob EXCEPT !.task = "match", !.pc = "fetch", !.mid = m,
                              !.puuid = p, !.idx = 1, !.attempts = 1]
    /\ pre' = [matches |-> matchTbl, participants |-> partTbl,
               summoners |-> summonerTbl, stats |-> statsTbl,
               timelines |-> timelineTbl, queue |-> timelineQueue]
    /\ hist' = IF hist.mid = m THEN hist
               ELSE [mid |-> m, done |-> FALSE, stats |-> {}]
    /\ gap' = NoGap
    /\ UNCHANGED <<storeVars, timelineQueue, apiCalls, schedVars, runVars>>

AfterFetchIgnoringFailure(j, o) ==
    [j EXCEPT !.pc = "match"]

\* match_data = _fetch_match_data(...): an exception of the fetch leaves the
\* try block at once; otherwise the body goes on to _create_match_record.
AfterFetch(j, o) ==
    IF o = "ok" THEN [j EXCEPT !.pc = "match"] ELSE Finish(j, o)

\* _fetch_match_data
FetchMatchData ==
    /\ job.task = "match" /\ job.pc = "fetch"
    /\ apiCalls' = apiCalls + 1
    /\ \E o \in ApiOutcomes :
          job' = AfterFetch([job EXCEPT !.fetched = o], o)
    /\ ProcStep
    /\ UNCHANGED <<storeVars, timelineQueue, pre, hist>>

\* _create_match_record
CreateMatchRecord ==
    /\ job.task = "match" /\ job.pc = "match"
    /\ \E o \in StoreOutcomes :
          IF o = "ok"
          THEN /\ matchTbl' = UpdateOrCreateMatch(matchTbl, job.mid, Body)
               /\ job' = [job EXCEPT !.pc = "part"]
          ELSE /\ matchTbl' = matchTbl
               /\ job' = Finish(job, o)
    /\ ProcStep
    /\ UNCHANGED <<summonerTbl, partTbl, timelineTbl, statsTbl, timelineQueue,
                   apiCalls, pre, hist>>

\* _process_participants: the head of the loop and
\* _get_or_create_participant_summoner for the current entry.
GetOrCreateParticipantSummoner ==
    /\ job.task = "match" /\ job.pc = "part"
    /\ job.idx <= Len(Body.participants)
    /\ LET e == Body.participants[job.idx]
       IN  IF e.puuid = None
           THEN /\ job' = [job EXCEPT !.idx = @ + 1]
                /\ summonerTbl' = summonerTbl
           ELSE \E o \in StoreOutcomes :
                   IF o = "ok"
                   THEN /\ summonerTbl' = GetOrCreateSummoner(summonerTbl, e)
                        /\ job' = [job EXCEPT !.pc = "prow"]
                   ELSE /\ summonerTbl' = summonerTbl
                        /\ job' = Finish(job, o)
    /\ ProcStep
    /\ UNCHANGED <<matchTbl, partTbl, timelineTbl, statsTbl, timelineQueue,
                   apiCalls, pre, hist>>

\* _create_match_participant
CreateMatchParticipant ==
    /\ job.task = "match" /\ job.pc = "prow"
    /\ LET e == Body.participants[job.idx]
           m == MatchRow(matchTbl, job.mid)
           sm == SummonerRow(summonerTbl, e.puuid)
       IN  \E o \in StoreOutcomes :
              IF o = "ok"
              THEN /\ partTbl' = UpdateOrCreateParticipant(partTbl, m.pk, e, sm.pk)
                   /\ job' = [job EXCEPT !.pc = "incr", !.count = @ + 1]
              ELSE /\ partTbl' = partTbl
                   /\ job' = Finish(job, o)
    /\ ProcStep
    /\ UNCHANGED <<matchTbl, summonerTbl, timelineTbl, statsTbl, timelineQueue,
                   apiCalls, pre, hist>>

AfterIncrementRaising(j, puuid, o) ==
    IF o = "ok" THEN [j EXCEPT !.pc = "part", !.idx = @ + 1]
    ELSE Finish([j EXCEPT !.incr_failed = @ \cup {puuid}], "permanent")

\* except Exception as e: logger.error(...): whatever increment_stats did,
\* the loop goes on with the next entry.  incr_failed keeps the players
\* whose increment raised.
AfterIncrement(j, puuid, o) ==
    [j EXCEPT !.pc = "part", !.idx = @ + 1,
              !.incr_failed = IF o = "ok" THEN @ ELSE @ \cup {puuid}]

\* _update_yearly_stats_incremental: increment_stats in its own transaction;
\* an error inside it is logged and swallowed.
UpdateYearlyStatsIncremental ==
    /\ job.task = "match" /\ job.pc = "incr"
    /\ LET e == Body.participants[job.idx]
           m == MatchRow(matchTbl, job.mid)
           sm == SummonerRow(summonerTbl, e.puuid)
           p == ParticipantRow(partTbl, m.pk, e.puuid)
       IN  \E o \in {"ok", "error"} :
              /\ statsTbl' = IF o = "ok"
                             THEN IncrementStats(statsTbl, partTbl, sm.pk,
                                                 DEFAULT_MATCH_YEAR, p)
                             ELSE statsTbl
              /\ job' = AfterIncrement(job, e.puuid, o)
    /\ ProcStep
    /\ UNCHANGED <<matchTbl, summonerTbl, partTbl, timelineTbl, timelineQueue,
                   apiCalls, pre, hist>>

IsRequestedPlayersMatchAlways(puuid, body) ==
    TRUE

\* if puuid in participant_puuids
IsRequestedPlayersMatch(puuid, body) ==
    LET participant_puuids ==
            {body.participants[i].puuid : i \in 1..Len(body.participants)}
    IN  puuid \in participant_puuids

\* _sync_timeline_if_needed and the return of the result dictionary.  The
\* call of .delay may raise (the broker cannot be reached); the error is
\* logged and the function returns False.
SyncTimelineIfNeeded ==
    /\ job.task = "match" /\ job.pc = "part"
    /\ job.idx > Len(Body.participants)
    /\ IF IsRequestedPlayersMatch(job.puuid, Body)
       THEN \E o \in {"ok", "error"} :
               /\ timelineQueue' = IF o = "ok"
                                   THEN Append(timelineQueue, job.mid)
                                   ELSE timelineQueue
               /\ job' = Finish([job EXCEPT !.timeline_synced = (o = "ok"),
                                            !.enqueue = o], None)
       ELSE /\ timelineQueue' = timelineQueue
            /\ job' = Finish(job, None)
    /\ hist' = IF hist.done THEN hist
               ELSE [hist EXCEPT !.done = TRUE, !.stats = statsTbl]
    /\ ProcStep
    /\ UNCHANGED <<storeVars, apiCalls, pre>>

(***************************************************************************)
(* The Sub-record Processor: sync_match_timeline_atomic, step by step.     *)
(***************************************************************************)
TimelineJob(m) ==
    [IdleJob EXCEPT !.task = "timeline", !.pc = "validate", !.mid = m, !.attempts = 1]

\* The job enqueued by _sync_timeline_if_needed is picked up by a worker.
StartQueuedTimelineTask ==
    /\ job.pc \in {"idle", "done"}
    /\ invocations < MaxInvocations
    /\ timelineQueue # << >>
    /\ invocations' = invocations + 1
    /\ job' = TimelineJob(Head(timelineQueue))
    /\ timelineQueue' = Tail(timelineQueue)
    /\ gap' = NoGap
    /\ UNCHANGED <<storeVars, apiCalls, pre, hist, schedVars, runVars>>

\* The task is started directly for match id m (_process_missing_timelines).
StartTimelineTask(m) ==
    /\ job.pc \in {"idle", "done"}
    /\ invocations < MaxInvocations
    /\ invocations' = invocations + 1
    /\ job' = TimelineJob(m)
    /\ gap' = NoGap
    /\ UNCHANGED <<storeVars, timelineQueue, apiCalls, pre, hist, schedVars, runVars>>

HasTimelineNever(m) ==
    FALSE

\* hasattr(match, 'timeline'): the reverse one-to-one accessor queries the
\* MatchTimeline row of the match.
HasTimeline(m) ==
    \E t \in timelineTbl : t.match = m.pk

NotFoundReportsSuccess(j) ==
    Finish([j EXCEPT !.status = "already_exists"], None)

\* raise ValueError(f"Match {match_id} not found"), caught by the body's
\* except clause and turned into the error dictionary.
NotFound(j) ==
    Finish([j EXCEPT !.message = "Match not found"], "permanent")

\* _validate_match_exists, then _timeline_already_exists
ValidateMatchExists ==
    /\ job.task = "timeline" /\ job.pc = "validate"
    /\ job' = IF ~ \E r \in matchTbl : r.match_id = job.mid
              THEN NotFound(job)
              ELSE IF HasTimeline(MatchRow(matchTbl, job.mid))
                   THEN Finish([job EXCEPT !.status = "already_exists"], None)
                   ELSE [job EXCEPT !.pc = "tfetch"]
    /\ ProcStep
    /\ UNCHANGED <<storeVars, timelineQueue, apiCalls, pre, hist>>

\* _fetch_timeline_data
FetchTimelineData ==
    /\ job.task = "timeline" /\ job.pc = "tfetch"
    /\ apiCalls' = apiCalls + 1
    /\ \E o \in ApiOutcomes :
          job' = IF o = "ok" THEN [job EXCEPT !.pc = "tcreate"] ELSE Finish(job, o)
    /\ ProcStep
    /\ UNCHANGED <<storeVars, timelineQueue, pre, hist>>

\* _create_timeline_record: MatchTimeline.objects.create on a one-to-one key.
CreateTimelineRecord ==
    /\ job.task = "timeline" /\ job.pc = "tcreate"
    /\ LET m == MatchRow(matchTbl, job.mid)
       IN  \E o \in StoreOutcomes :
              IF o = "ok" /\ ~ HasTimeline(m)
              THEN /\ timelineTbl' = timelineTbl \cup
                                       {[pk |-> NextPk(timelineTbl), match |-> m.pk]}
                   /\ job' = Finish([job EXCEPT !.status = "created"], None)
              ELSE /\ timelineTbl' = timelineTbl
                   /\ job' = Finish(job, IF o = "ok" THEN "permanent" ELSE o)
    /\ ProcStep
    /\ UNCHANGED <<matchTbl, summonerTbl, partTbl, statsTbl, timelineQueue,
                   apiCalls, pre, hist>>

(***************************************************************************)
(* The Recovery / Gap Analyzer: _analyze_data_gaps.                        *)
(***************************************************************************)
RECURSIVE SeqsUpTo(_, _)
SeqsUpTo(S, n) ==
    IF n = 0 THEN {<< >>}
    ELSE LET shorter == SeqsUpTo(S, n - 1)
         IN  shorter \cup {Append(q, x) : q \in shorter, x \in S}

Range(q) == {q[i] : i \in 1..Len(q)}

\* Match.objects.filter(match_id__in=all_match_ids).values_list('match_id')
ExistingMatches(all_match_ids) ==
    {r.match_id : r \in {x \in matchTbl : x.match_id \in Range(all_match_ids)}}

\* MatchTimeline.objects.filter(match__match_id__in=all_match_ids)
ExistingTimelines(all_match_ids) ==
    {r.match_id : r \in {x \in matchTbl : /\ x.match_id \in Range(all_match_ids)
                                          /\ HasTimeline(x)}}

MissingMatchesUnfiltered(all_match_ids) ==
    all_match_ids

\* [mid for mid in all_match_ids if mid not in existing_matches]
MissingMatches(all_match_ids) ==
    LET existing == ExistingMatches(all_match_ids)
        absent(mid) == mid \notin existing
    IN  SelectSeq(all_match_ids, absent)

MissingTimelinesNone(all_match_ids) ==
    {}

\* [mid for mid in existing_matches if mid not in existing_timelines]
MissingTimelines(all_match_ids) ==
    ExistingMatches(all_match_ids) \ ExistingTimelines(all_match_ids)

\* The analysis runs between task invocations, once per run of the caller.
\* The three collections are returned as lists; present and missingSubRecords
\* are built from Python sets, whose order is unspecified, and are kept as sets.
AnalyzeDataGaps(ids) ==
    /\ job.pc \in {"idle", "done"}
    /\ gap = NoGap
    /\ gap' = [requested |-> ids,
               present |-> ExistingMatches(ids),
               missingRecords |-> MissingMatches(ids),
               missingSubRecords |-> MissingTimelines(ids)]
    /\ UNCHANGED <<storeVars, timelineQueue, job, apiCalls, invocations, pre, hist,
                   schedVars, runVars>>

(***************************************************************************)
(* Spec: the store, the processors and the gap analysis.                   *)
(***************************************************************************)
IdleSched ==
    [pc |-> "off", pending |-> << >>, batch_num |-> 0, i |-> 0,
     batch_results |-> << >>, processed_matches |-> 0, failed_matches |-> << >>,
     pauses |-> 0, await_start |-> 0, wake_at |-> 0]

StoreEmpty ==
    /\ matchTbl = {} /\ summonerTbl = {} /\ partTbl = {}
    /\ timelineTbl = {} /\ statsTbl = {}

\* No orchestrator run has been started.
IdleRun ==
    [pc |-> "idle", mode |-> None, phase |-> None, n |-> 0, summoner |-> 0,
     match_ids |-> << >>, existing |-> {}, todo |-> << >>, inflight |-> << >>,
     processed_matches |-> 0, failed_matches |-> << >>,
     missing_timelines |-> << >>, i |-> 0,
     processed_timelines |-> 0, failed_timelines |-> << >>,
     error |-> None, raised |-> FALSE, result |-> None, stats_updated |-> FALSE,
     stats_calls |-> 0, ids_calls |-> 0, failed_at |-> None,
     queued_failed |-> FALSE,
     start |-> [matches |-> {}, participants |-> {}, summoners |-> {},
                stats |-> {}, timelines |-> {}],
     prev |-> [mode |-> None, match_ids |-> << >>, clean |-> FALSE,
               rows |-> <<0, 0, 0>>, stats |-> {}]]

\* No call has been made to the aggregator.
\* (The history is kept under SpecAgg only.)
NoAgg ==
    [incs |-> << >>, upd |-> {},
     last |-> [op |-> "none", summoner |-> 0, prior |-> {}]]

\* The worker processes of the pool that execute tasks at the same time.
Workers == {1, 2}

\* A worker that executes no task: the locals of the task body (the Match,
\* Summoner and MatchParticipant objects it holds by primary key, the
\* PlayerYearlyStats object increment_stats has read) on top of the job's.
IdleWorker ==
    IdleJob @@ [match |-> 0, summoner |-> 0, participant |-> 0, stats |-> {},
                lost_race |-> {}, increments |-> 0]

\* No worker runs; the sequences of the AutoField primary keys are at 0.
IdleConc ==
    [w |-> [i \in Workers |-> IdleWorker],
     seq |-> [match |-> 0, summoner |-> 0, participant |-> 0, timeline |-> 0,
              stats |-> 0],
     cleanups |-> 0]

\* No call of get_match_ids_by_puuid has been made.
IdleListing ==
    [pc |-> "idle", year |-> 0, count |-> 0, max_matches |-> 0, history |-> 0,
     all_match_ids |-> << >>, start |-> 0, requests |-> << >>, result |-> << >>,
     error |-> None]

RunIdle ==
    /\ run = IdleRun
    /\ rjobs = << >>
    /\ agg = NoAgg
    /\ conc = IdleConc
    /\ listing = IdleListing

Init ==
    /\ StoreEmpty
    /\ timelineQueue = << >>
    /\ job = IdleJob
    /\ apiCalls = 0
    /\ invocations = 0
    /\ gap = NoGap
    /\ pre = NoPre
    /\ hist = [mid |-> None, done |-> FALSE, stats |-> {}]
    /\ sched = IdleSched
    /\ jobs = << >>
    /\ now = 0
    /\ calls = 0
    /\ RunIdle

Next ==
    \/ \E m \in MatchIds, p \in Puuids : StartMatchTask(m, p)
    \/ FetchMatchData
    \/ CreateMatchRecord
    \/ GetOrCreateParticipantSummoner
    \/ CreateMatchParticipant
    \/ UpdateYearlyStatsIncremental
    \/ SyncTimelineIfNeeded
    \/ StartQueuedTimelineTask
    \/ \E m \in MatchIds : StartTimelineTask(m)
    \/ ValidateMatchExists
    \/ FetchTimelineData
    \/ CreateTimelineRecord
    \/ \E ids \in SeqsUpTo(MatchIds, MaxIds) : AnalyzeDataGaps(ids)

Spec == Init /\ [][Next]_vars

(***************************************************************************)
(* The Rate-Limited Batch Scheduler: _process_pending_matches.             *)
(*                                                                         *)
(* The clock counts rate windows of WindowSeconds; calls is the number of  *)
(* external fetches issued in the current window.  A job that was queued   *)
(* may be run by the worker pool at any later time.                        *)
(***************************************************************************)
MaxPending == 3
MaxClock == 4

\* batch_size = 2000 in the code; scaled down so that several batches form.
batch_size == 2
\* "Match API allows 2000 requests every 10 seconds": the ceiling is one
\* batch per window.
RateCeiling == batch_size
WindowSeconds == 10
delay_between_batches == 10
AwaitTimeout == 30

Min(a, b) == IF a < b THEN a ELSE b

\* batches = [pending_matches[i:i + batch_size] for i in range(0, len, batch_size)]
Batches(pending) ==
    [b \in 1..((Len(pending) + batch_size - 1) \div batch_size) |->
        SubSeq(pending, (b - 1) * batch_size + 1, Min(b * batch_size, Len(pending)))]

\* The batch of the current iteration of "for batch_num, batch in enumerate(batches)".
CurrentBatch == Batches(sched.pending)[sched.batch_num + 1]

NoJob ==
    [queued |-> FALSE, batch |-> -1, st |-> "none", awaited |-> "no", tl |-> "none"]

\* The call of _process_pending_matches with n pending ids 1..n.
ProcessPendingMatches(n) ==
    /\ sched.pc = "start"
    /\ sched' = [sched EXCEPT !.pending = [k \in 1..n |-> k],
                              !.pc = IF n = 0 THEN "done" ELSE "submit",
                              !.i = 1]
    /\ jobs' = [k \in 1..n |-> NoJob]
    /\ UNCHANGED <<now, calls, storeVars, procVars, runVars>>

\* for match_id in batch: sync_match_data_atomic.delay(...), which may raise.
SubmitJob ==
    /\ sched.pc = "submit"
    /\ LET id == CurrentBatch[sched.i]
           last == sched.i = Len(CurrentBatch)
       IN  \E o \in {"ok", "error"} :
              /\ jobs' = [jobs EXCEPT ![id] =
                            [@ EXCEPT !.queued = (o = "ok"), !.batch = sched.batch_num,
                                      !.st = IF o = "ok" THEN "queued" ELSE "none"]]
              /\ sched' = [sched EXCEPT
                            !.batch_results = IF o = "ok" THEN Append(@, id) ELSE @,
                            !.failed_matches = IF o = "ok" THEN @ ELSE Append(@, id),
                            !.i = IF last THEN 1 ELSE @ + 1,
                            !.pc = IF last THEN "await" ELSE "submit",
                            !.await_start = now]
    /\ UNCHANGED <<now, calls, storeVars, procVars, runVars>>

RecordOutcomeDroppingTimeouts(s, id, outcome) ==
    [s EXCEPT !.processed_matches = IF outcome = "ok" THEN @ + 1 ELSE @,
              !.failed_matches = IF outcome \in {"failed", "raised"}
                                 THEN Append(@, id) ELSE @]

\* The body of "for match_id, result in batch_results": a success result is
\* counted, anything else (failure result, exception, timeout) is listed.
RecordOutcome(s, id, outcome) ==
    [s EXCEPT !.processed_matches = IF outcome = "ok" THEN @ + 1 ELSE @,
              !.failed_matches = IF outcome = "ok" THEN @ ELSE Append(@, id)]

\* match_result = result.get(timeout=30) for the next queued job of the batch:
\* the result of a finished job (a dictionary, or the exception the worker
\* recorded for it, raised again by get), or the timeout of the wait for a
\* job that has not finished.
AwaitResult ==
    /\ sched.pc = "await"
    /\ sched.i <= Len(sched.batch_results)
    /\ LET id == sched.batch_results[sched.i]
           o == IF jobs[id].st = "queued" THEN "timeout" ELSE jobs[id].st
       IN  /\ jobs[id].st = "queued" =>
                  (now - sched.await_start) * WindowSeconds >= AwaitTimeout
           /\ sched' = [RecordOutcome(sched, id, o) EXCEPT !.i = @ + 1,
                                                           !.await_start = now]
           /\ jobs' = [jobs EXCEPT ![id] = [@ EXCEPT !.awaited = o]]
    /\ UNCHANGED <<now, calls, storeVars, procVars, runVars>>

BatchDrainedAfterFirst(s) ==
    s.i > Min(1, Len(s.batch_results))

\* The loop over batch_results has run to its end.
BatchDrained(s) ==
    s.i > Len(s.batch_results)

ShouldPauseAlways(s) ==
    TRUE

\* if batch_num < len(batches) - 1
ShouldPause(s) ==
    s.batch_num < Len(Batches(s.pending)) - 1

\* After the batch: time.sleep(delay_between_batches), or the return.
EndBatch ==
    /\ sched.pc = "await"
    /\ BatchDrained(sched)
    /\ sched' = IF ShouldPause(sched)
                THEN [sched EXCEPT !.pc = "sleep", !.pauses = @ + 1,
                                   !.wake_at = now * WindowSeconds + delay_between_batches]
                ELSE [sched EXCEPT !.pc = "done"]
    /\ UNCHANGED <<jobs, now, calls, storeVars, procVars, runVars>>

\* The sleep is over; the next iteration of the loop over the batches begins.
Wake ==
    /\ sched.pc = "sleep"
    /\ now * WindowSeconds >= sched.wake_at
    /\ sched.batch_num + 1 < Len(Batches(sched.pending))
    /\ sched' = [sched EXCEPT !.pc = "submit", !.batch_num = @ + 1, !.i = 1,
                              !.batch_results = << >>]
    /\ UNCHANGED <<jobs, now, calls, storeVars, procVars, runVars>>

\* A worker runs the record processor for a queued job: it fetches the match
\* and ends with a success result, with a failure result, or with an exception
\* recorded for it by the worker pool (worker lost, time limit); on success it
\* enqueues the sub-record job (the ids are those of the requesting player's
\* matches).
WorkerRun(id) ==
    /\ id \in DOMAIN jobs
    /\ jobs[id].st = "queued"
    /\ \E o \in {"ok", "failed", "raised"} :
          jobs' = [jobs EXCEPT ![id] =
                     [@ EXCEPT !.st = o, !.tl = IF o = "ok" THEN "queued" ELSE "none"]]
    /\ calls' = calls + 1
    /\ UNCHANGED <<sched, now, storeVars, procVars, runVars>>

\* A worker runs the enqueued sub-record job: the match is new, it has no
\* timeline yet, so the timeline is fetched.
TimelineRun(id) ==
    /\ id \in DOMAIN jobs
    /\ jobs[id].tl = "queued"
    /\ jobs' = [jobs EXCEPT ![id] = [@ EXCEPT !.tl = "done"]]
    /\ calls' = calls + 1
    /\ UNCHANGED <<sched, now, storeVars, procVars, runVars>>

\* One rate window goes by.
Tick ==
    /\ now < MaxClock
    /\ now' = now + 1
    /\ calls' = 0
    /\ UNCHANGED <<sched, jobs, storeVars, procVars, runVars>>

InitSched ==
    /\ StoreEmpty
    /\ timelineQueue = << >>
    /\ job = IdleJob
    /\ apiCalls = 0
    /\ invocations = 0
    /\ gap = NoGap
    /\ pre = NoPre
    /\ hist = [mid |-> None, done |-> FALSE, stats |-> {}]
    /\ sched = [IdleSched EXCEPT !.pc = "start"]
    /\ jobs = << >>
    /\ now = 0
    /\ calls = 0
    /\ RunIdle

NextSched ==
    \/ \E n \in 0..MaxPending : ProcessPendingMatches(n)
    \/ SubmitJob
    \/ AwaitResult
    \/ EndBatch
    \/ Wake
    \/ \E id \in 1..MaxPending : WorkerRun(id)
    \/ \E id \in 1..MaxPending : TimelineRun(id)
    \/ Tick

SpecSched == InitSched /\ [][NextSched]_vars

(***************************************************************************)
(* The record processor as a worker executes it, from start to end.        *)
(***************************************************************************)
\* _process_participants over the entries of the body still to be handled.
\* st holds the summoner, participant and aggregate tables and the log of
\* the participant rows handed to increment_stats; errs is the set of puuids
\* for which _update_yearly_stats_incremental caught an error.
RECURSIVE ProcessParticipants(_, _, _, _)
ProcessParticipants(st, mpk, entries, errs) ==
    IF entries = << >> THEN st
    ELSE LET e == Head(entries)
         IN  IF e.puuid = None
             THEN ProcessParticipants(st, mpk, Tail(entries), errs)
             ELSE LET sums == GetOrCreateSummoner(st.summoners, e)
                      sm == SummonerRow(sums, e.puuid)
                      parts == UpdateOrCreateParticipant(st.parts, mpk, e, sm.pk)
                      p == ParticipantRow(parts, mpk, e.puuid)
                      failed == e.puuid \in errs
                  IN  ProcessParticipants(
                         [summoners |-> sums, parts |-> parts,
                          stats |-> IF failed THEN st.stats
                                    ELSE IncrementStats(st.stats, parts, sm.pk,
                                                        DEFAULT_MATCH_YEAR, p),
                          incs |-> IF failed THEN st.incs ELSE Append(st.incs, p.pk)],
                         mpk, Tail(entries), errs)

\* The outcomes of one execution of sync_match_data_atomic: it succeeds, the
\* fetch of the body fails, or a store write fails after the Match row was
\* written.
RecordOutcomes == {"ok", "fetch_failed", "store_failed"}

\* sync_match_data_atomic(mid, ..., puuid, year) with the given outcome: the
\* tables after it, the sub-record jobs it enqueued and its success flag.
RecordProcessor(mid, puuid, outcome, errs) ==
    LET body == RemoteBody(mid)
        matches == UpdateOrCreateMatch(matchTbl, mid, body)
        st0 == [summoners |-> summonerTbl, parts |-> partTbl, stats |-> statsTbl,
                incs |-> agg.incs]
        st == ProcessParticipants(st0, MatchRow(matches, mid).pk,
                                  body.participants, errs)
        participant_puuids == {body.participants[i].puuid :
                                  i \in 1..Len(body.participants)}
    IN  IF outcome = "fetch_failed"
        THEN [matches |-> matchTbl, st |-> st0, enqueued |-> << >>, success |-> FALSE]
        ELSE IF outcome = "store_failed"
        THEN [matches |-> matches, st |-> st0, enqueued |-> << >>, success |-> FALSE]
        ELSE [matches |-> matches, st |-> st,
              enqueued |-> IF puuid \in participant_puuids THEN <<mid>> ELSE << >>,
              success |-> TRUE]

\* The effect of RecordProcessor on the state.
ApplyRecordProcessor(r) ==
    /\ matchTbl' = r.matches
    /\ summonerTbl' = r.st.summoners
    /\ partTbl' = r.st.parts
    /\ statsTbl' = r.st.stats
    /\ timelineQueue' = timelineQueue \o r.enqueued

(***************************************************************************)
(* SpecAgg: the aggregator under the record processor's incremental        *)
(* updates and the full recomputation, in any order.                       *)
(***************************************************************************)
\* One execution of sync_match_data_atomic for match m on behalf of player p.
SyncMatchDataAtomic(m, p) ==
    /\ invocations < MaxInvocations
    /\ invocations' = invocations + 1
    /\ \E o \in RecordOutcomes, errs \in SUBSET Puuids :
          LET r == RecordProcessor(m, p, o, errs)
          IN  /\ ApplyRecordProcessor(r)
              /\ agg' = [agg EXCEPT !.incs = r.st.incs,
                                    !.last = [op |-> "process", summoner |-> 0,
                                              prior |-> {}]]
    /\ UNCHANGED <<timelineTbl, job, apiCalls, gap, pre, hist, schedVars, run, rjobs, conc, listing>>

\* update_stats() for the summoner row sm (recalculate_all_yearly_stats,
\* _update_yearly_stats).
UpdateStatsCall(sm) ==
    /\ sm \in summonerTbl
    /\ statsTbl' = UpdateStats(statsTbl, partTbl, matchTbl, sm, DEFAULT_MATCH_YEAR)
    /\ agg' = [agg EXCEPT !.upd = @ \cup {sm.pk},
                          !.last = [op |-> "update", summoner |-> sm.pk,
                                    prior |-> {s \in statsTbl : s.summoner = sm.pk}]]
    /\ UNCHANGED <<matchTbl, summonerTbl, partTbl, timelineTbl, procVars, schedVars,
                   run, rjobs, conc, listing>>

\* The match ids processed under SpecAgg.
AggMatchIds == MatchIds \cup {"M3"}

NextAgg ==
    \/ \E m \in AggMatchIds, p \in Puuids : SyncMatchDataAtomic(m, p)
    \/ \E sm \in summonerTbl : UpdateStatsCall(sm)

SpecAgg == Init /\ [][NextAgg]_vars

(***************************************************************************)
(* SpecRun: the Sync Orchestrator.  sync_player_data ("sync") and          *)
(* recover_player_data ("recover") for one player, the jobs they submit    *)
(* and the workers that execute those jobs.  Waiting times are not         *)
(* modelled: an await of a job that has not finished may time out.         *)
(***************************************************************************)
MaxRuns == 2

\* The player the runs are started for, and the account the source resolves
\* the name to.
GameName == "Player"
TagLine == "TAG"
AccountData == [puuid |-> "P1", gameName |-> GameName, tagLine |-> TagLine]

\* Summoner.objects.update_or_create(puuid=..., defaults={...})
UpdateOrCreateSummoner(tbl, data) ==
    LET found == {r \in tbl : r.puuid = data.puuid}
        fields == [puuid |-> data.puuid, summoner_id |-> data.gameName,
                   name |-> data.gameName, tag_line |-> data.tagLine,
                   platform |-> DefaultPlatform]
    IN  IF found = {}
        THEN tbl \cup {[pk |-> NextPk(tbl)] @@ fields}
        ELSE {IF r \in found THEN [pk |-> r.pk] @@ fields ELSE r : r \in tbl}

\* Summoner.objects.filter(name=, tag_line=, platform=): the rows found.
ExistingSummoners(tbl) ==
    {r \in tbl : /\ r.name = GameName /\ r.tag_line = TagLine
                 /\ r.platform = DefaultPlatform}

\* The summoner object the run holds.
RunSummoner == CHOOSE r \in summonerTbl : r.pk = run.summoner

\* The lists a Python set may be turned into by list() or by iteration.
ListsOf(S) ==
    {q \in SeqsUpTo(S, Cardinality(S)) : Len(q) = Cardinality(S) /\ Range(q) = S}

PendingMatchesUnfiltered(match_ids) ==
    match_ids

\* [mid for mid in match_ids if mid not in existing_matches]
PendingMatches(match_ids) ==
    LET existing == ExistingMatches(match_ids)
        absent(mid) == mid \notin existing
    IN  SelectSeq(match_ids, absent)

StepAfterSkippingAnalysis(step) ==
    CASE step = "fetch_identity" -> "fetch_remote_ids"
      [] step = "fetch_remote_ids" -> "dispatch_batches"
      [] step = "analyze_gaps" -> "dispatch_batches"
      [] step = "dispatch_batches" -> "await_results"
      [] step = "await_results" -> "update_aggregates"
      [] step = "update_aggregates" -> "done"

StepAfterSkippingUpdate(step) ==
    CASE step = "fetch_identity" -> "fetch_remote_ids"
      [] step = "fetch_remote_ids" -> "analyze_gaps"
      [] step = "analyze_gaps" -> "dispatch_batches"
      [] step = "dispatch_batches" -> "await_results"
      [] step = "await_results" -> "done"
      [] step = "update_aggregates" -> "done"

\* The step that follows a step of the task body when the step succeeds.
StepAfter(step) ==
    CASE step = "fetch_identity" -> "fetch_remote_ids"
      [] step = "fetch_remote_ids" -> "analyze_gaps"
      [] step = "analyze_gaps" -> "dispatch_batches"
      [] step = "dispatch_batches" -> "await_results"
      [] step = "await_results" -> "update_aggregates"
      [] step = "update_aggregates" -> "done"

HandleTaskErrorSilentDefault(r, err) ==
    [r EXCEPT !.pc = StepAfter(r.pc), !.failed_at = r.pc]

\* except Exception as e: return handle_task_error(task, e, ...): the task
\* state is set to FAILURE with the error, and the error dictionary is
\* returned as the value of the task.  failed_at is the step the progress
\* tracker was last updated to.
HandleTaskError(r, err) ==
    [r EXCEPT !.pc = "failed", !.error = err, !.raised = FALSE,
              !.result = "error_dict", !.failed_at = r.pc]

\* The number of Match, MatchParticipant and MatchTimeline rows.
RowCounts ==
    <<Cardinality(matchTbl), Cardinality(partTbl), Cardinality(timelineTbl)>>

\* Every job of the run was queued, succeeded and was awaited with success,
\* every sub-record job has been executed, and the recomputation was made.
RunClean ==
    /\ run.pc = "done" /\ run.stats_updated
    /\ run.failed_matches = << >> /\ run.failed_timelines = << >>
    /\ timelineQueue = << >>
    /\ \A j \in DOMAIN rjobs : rjobs[j].st = "ok" /\ rjobs[j].awaited = "ok"

\* The task is started; the runs of the player follow one another, each
\* started once the jobs of the one before have been executed.
StartRun(mode) ==
    /\ run.pc \in {"idle", "done", "failed"}
    /\ run.n < MaxRuns
    /\ timelineQueue = << >>
    /\ \A j \in DOMAIN rjobs : rjobs[j].st # "queued"
    /\ run' = [IdleRun EXCEPT
                 !.pc = "fetch_identity", !.mode = mode, !.n = run.n + 1,
                 !.start = [matches |-> matchTbl, participants |-> partTbl,
                            summoners |-> summonerTbl, stats |-> statsTbl,
                            timelines |-> timelineTbl],
                 !.prev = [mode |-> run.mode, match_ids |-> run.match_ids,
                           clean |-> RunClean, rows |-> RowCounts,
                           stats |-> {s \in statsTbl : s.summoner = run.summoner}]]
    /\ rjobs' = << >>
    /\ UNCHANGED <<storeVars, procVars, schedVars, agg, conc, listing>>

RunStep ==
    UNCHANGED <<procVars, schedVars>>

\* sync_player_data, step 1: _get_or_create_summoner
GetOrCreateSummonerStep ==
    /\ run.mode = "sync" /\ run.pc = "fetch_identity"
    /\ \E o \in ApiOutcomes :
          IF o = "ok"
          THEN /\ summonerTbl' = UpdateOrCreateSummoner(summonerTbl, AccountData)
               /\ run' = [run EXCEPT
                            !.pc = StepAfter(run.pc),
                            !.summoner = SummonerRow(summonerTbl', AccountData.puuid).pk]
          ELSE /\ summonerTbl' = summonerTbl
               /\ run' = HandleTaskError(run, o)
    /\ RunStep
    /\ UNCHANGED <<matchTbl, partTbl, timelineTbl, statsTbl, rjobs, agg, conc, listing>>

\* recover_player_data, step 1: _find_existing_summoner, ValueError if none
FindExistingSummoner ==
    /\ run.mode = "recover" /\ run.pc = "fetch_identity"
    /\ LET found == ExistingSummoners(summonerTbl)
       IN  run' = IF found = {}
                  THEN HandleTaskError(run, "permanent")
                  ELSE [run EXCEPT
                          !.pc = StepAfter(run.pc),
                          !.summoner = CHOOSE k \in {r.pk : r \in found} :
                                          \A r \in found : k <= r.pk]
    /\ RunStep
    /\ UNCHANGED <<storeVars, rjobs, agg, conc, listing>>

\* step 2: _get_match_ids_for_year; the source answers with a list of ids.
GetMatchIdsForYear ==
    /\ run.pc = "fetch_remote_ids"
    /\ \E o \in ApiOutcomes, ids \in SeqsUpTo(MatchIds, MaxIds) :
          LET r == [run EXCEPT !.ids_calls = @ + 1]
          IN  run' = IF o = "ok"
                     THEN [r EXCEPT !.pc = StepAfter(run.pc), !.match_ids = ids]
                     ELSE HandleTaskError(r, o)
    /\ RunStep
    /\ UNCHANGED <<storeVars, rjobs, agg, conc, listing>>

\* sync_player_data, step 3: _analyze_existing_data
AnalyzeExistingData ==
    /\ run.mode = "sync" /\ run.pc = "analyze_gaps"
    /\ \E o \in {"ok", "error"} :
          run' = IF o = "ok"
                 THEN [run EXCEPT !.pc = StepAfter(run.pc), !.phase = "matches",
                                  !.existing = ExistingMatches(run.match_ids),
                                  !.todo = PendingMatches(run.match_ids)]
                 ELSE HandleTaskError(run, "transient")
    /\ RunStep
    /\ UNCHANGED <<storeVars, rjobs, agg, conc, listing>>

\* recover_player_data, step 3: _analyze_data_gaps
AnalyzeDataGapsStep ==
    /\ run.mode = "recover" /\ run.pc = "analyze_gaps"
    /\ \E o \in {"ok", "error"}, tl \in ListsOf(MissingTimelines(run.match_ids)) :
          run' = IF o = "ok"
                 THEN [run EXCEPT !.pc = StepAfter(run.pc), !.phase = "matches",
                                  !.existing = ExistingMatches(run.match_ids),
                                  !.todo = MissingMatches(run.match_ids),
                                  !.missing_timelines = tl]
                 ELSE HandleTaskError(run, "transient")
    /\ RunStep
    /\ UNCHANGED <<storeVars, rjobs, agg, conc, listing>>

\* <task>.delay(...) for the next id of the work list, which may raise; at
\* most window jobs are submitted before their results are awaited.
Submit(kind, window) ==
    /\ run.pc = "dispatch_batches"
    /\ run.todo # << >>
    /\ LET mid == Head(run.todo)
           idx == Len(rjobs) + 1
           full == run.i + 1 = window \/ Tail(run.todo) = << >>
       IN  \E o \in {"ok", "error"} :
              /\ rjobs' = Append(rjobs,
                             [kind |-> kind, mid |-> mid,
                              st |-> IF o = "ok" THEN "queued" ELSE "none",
                              awaited |-> IF o = "ok" THEN "no" ELSE "unqueued"])
              /\ run' = [run EXCEPT
                           !.todo = Tail(@),
                           !.inflight = IF o = "ok" THEN Append(@, idx) ELSE @,
                           !.failed_matches =
                               IF o = "error" /\ kind = "match" THEN Append(@, mid) ELSE @,
                           !.failed_timelines =
                               IF o = "error" /\ kind = "timeline" THEN Append(@, mid)
                               ELSE @,
                           !.i = IF full THEN 0 ELSE @ + 1,
                           !.pc = IF full THEN "await_results" ELSE @]
    /\ RunStep
    /\ UNCHANGED <<storeVars, agg, conc, listing>>

RecordTimelineOutcomeCountingAll(r, mid, outcome) ==
    [r EXCEPT !.processed_timelines = @ + 1]

\* The body of the loop of _process_missing_timelines after result.get.
RecordTimelineOutcome(r, mid, outcome) ==
    [r EXCEPT !.processed_timelines = IF outcome = "ok" THEN @ + 1 ELSE @,
              !.failed_timelines = IF outcome = "ok" THEN @ ELSE Append(@, mid)]

\* result.get(timeout=30) for the oldest job not yet awaited: the result of a
\* finished job, or the timeout of the wait for one that has not finished.
Await(kind) ==
    /\ run.pc = "await_results"
    /\ run.inflight # << >>
    /\ LET j == Head(run.inflight)
           o == IF rjobs[j].st = "queued" THEN "timeout" ELSE rjobs[j].st
           r == [run EXCEPT !.inflight = Tail(@)]
       IN  /\ rjobs[j].kind = kind
           /\ run' = IF kind = "match" THEN RecordOutcome(r, rjobs[j].mid, o)
                      ELSE RecordTimelineOutcome(r, rjobs[j].mid, o)
           /\ rjobs' = [rjobs EXCEPT ![j] = [@ EXCEPT !.awaited = o]]
    /\ RunStep
    /\ UNCHANGED <<storeVars, agg, conc, listing>>

\* _process_pending_matches: sync_match_data_atomic.delay for an id of the batch
SubmitPendingMatch ==
    run.mode = "sync" /\ Submit("match", batch_size)

\* _process_pending_matches: result.get for a job of the batch
AwaitPendingMatch ==
    run.mode = "sync" /\ Await("match")

\* _process_missing_matches: sync_match_data_atomic.delay for a missing id
ProcessMissingMatch ==
    run.mode = "recover" /\ run.phase = "matches" /\ Submit("match", 1)

\* _process_missing_matches: result.get
AwaitMissingMatch ==
    run.mode = "recover" /\ Await("match")

\* _process_missing_timelines: sync_match_timeline_atomic.delay
ProcessMissingTimeline ==
    run.mode = "recover" /\ run.phase = "timelines" /\ Submit("timeline", 1)

\* _process_missing_timelines: result.get
AwaitMissingTimeline ==
    run.mode = "recover" /\ Await("timeline")

\* The results of the jobs submitted so far are in and ids are left: the next
\* batch (after the pause) or the next iteration of the loop.
NextBatch ==
    /\ run.pc = "await_results"
    /\ run.inflight = << >> /\ run.todo # << >>
    /\ run' = [run EXCEPT !.pc = "dispatch_batches"]
    /\ RunStep
    /\ UNCHANGED <<storeVars, rjobs, agg, conc, listing>>

\* The work list is exhausted (or was empty) and every result is in: the
\* helper returns; the recovery run goes on to the missing timelines.
WorkListDone ==
    /\ run.pc \in {"dispatch_batches", "await_results"}
    /\ run.inflight = << >> /\ run.todo = << >>
    /\ run' = IF run.mode = "recover" /\ run.phase = "matches"
               THEN [run EXCEPT !.phase = "timelines", !.pc = "dispatch_batches",
                                !.todo = run.missing_timelines]
               ELSE [run EXCEPT !.pc = StepAfter("await_results")]
    /\ RunStep
    /\ UNCHANGED <<storeVars, rjobs, agg, conc, listing>>

\* _update_yearly_stats, which logs and swallows an error of update_stats,
\* then the return of the result dictionary.
UpdateYearlyStats ==
    /\ run.pc = "update_aggregates"
    /\ \E o \in {"ok", "error"} :
          /\ statsTbl' = IF o = "ok"
                         THEN UpdateStats(statsTbl, partTbl, matchTbl, RunSummoner,
                                          DEFAULT_MATCH_YEAR)
                         ELSE statsTbl
          /\ run' = [run EXCEPT !.pc = StepAfter(run.pc), !.result = "result",
                                !.stats_updated = (o = "ok"),
                                !.stats_calls = @ + 1]
    /\ RunStep
    /\ UNCHANGED <<matchTbl, summonerTbl, partTbl, timelineTbl, rjobs, agg, conc, listing>>

\* A worker executes a queued record job of the run.
WorkerRunMatch(j) ==
    /\ j \in DOMAIN rjobs
    /\ rjobs[j].kind = "match" /\ rjobs[j].st = "queued"
    /\ \E o \in RecordOutcomes :
          LET r == RecordProcessor(rjobs[j].mid, RunSummoner.puuid, o, {})
          IN  /\ ApplyRecordProcessor(r)
              /\ rjobs' = [rjobs EXCEPT ![j] =
                             [@ EXCEPT !.st = IF r.success THEN "ok" ELSE "failed"]]
    /\ UNCHANGED <<timelineTbl, job, apiCalls, invocations, gap, pre, hist,
                   schedVars, run, agg, conc, listing>>

\* sync_match_timeline_atomic(mid) from start to end: the timeline table after
\* it and its success flag.  fetched is the outcome of the timeline fetch.
TimelineProcessor(mid, fetched) ==
    IF ~ \E r \in matchTbl : r.match_id = mid
    THEN [timelines |-> timelineTbl, success |-> FALSE]
    ELSE IF HasTimeline(MatchRow(matchTbl, mid))
    THEN [timelines |-> timelineTbl, success |-> TRUE]
    ELSE IF fetched = "ok"
    THEN [timelines |-> timelineTbl \cup
                           {[pk |-> NextPk(timelineTbl),
                             match |-> MatchRow(matchTbl, mid).pk]},
          success |-> TRUE]
    ELSE [timelines |-> timelineTbl, success |-> FALSE]

\* A worker executes a queued sub-record job of the recovery run.
WorkerRunTimeline(j) ==
    /\ j \in DOMAIN rjobs
    /\ rjobs[j].kind = "timeline" /\ rjobs[j].st = "queued"
    /\ \E o \in ApiOutcomes :
          LET r == TimelineProcessor(rjobs[j].mid, o)
          IN  /\ timelineTbl' = r.timelines
              /\ rjobs' = [rjobs EXCEPT ![j] =
                             [@ EXCEPT !.st = IF r.success THEN "ok" ELSE "failed"]]
    /\ UNCHANGED <<matchTbl, summonerTbl, partTbl, statsTbl, procVars, schedVars,
                   run, agg, conc, listing>>

\* A worker executes the sub-record job a record job enqueued.  Nobody
\* awaits its result; queued_failed keeps whether such a job of the run has
\* ended without success.
WorkerRunQueuedTimeline ==
    /\ timelineQueue # << >>
    /\ \E o \in ApiOutcomes :
          LET r == TimelineProcessor(Head(timelineQueue), o)
          IN  /\ timelineTbl' = r.timelines
              /\ run' = [run EXCEPT !.queued_failed = @ \/ ~ r.success]
    /\ timelineQueue' = Tail(timelineQueue)
    /\ UNCHANGED <<matchTbl, summonerTbl, partTbl, statsTbl, job, apiCalls,
                   invocations, gap, pre, hist, schedVars, rjobs, agg, conc,
                   listing>>

NextRun ==
    \/ \E mode \in {"sync", "recover"} : StartRun(mode)
    \/ GetOrCreateSummonerStep
    \/ FindExistingSummoner
    \/ GetMatchIdsForYear
    \/ AnalyzeExistingData
    \/ AnalyzeDataGapsStep
    \/ SubmitPendingMatch
    \/ AwaitPendingMatch
    \/ ProcessMissingMatch
    \/ AwaitMissingMatch
    \/ ProcessMissingTimeline
    \/ AwaitMissingTimeline
    \/ NextBatch
    \/ WorkListDone
    \/ UpdateYearlyStats
    \/ \E j \in 1..(2 * MaxIds) : WorkerRunMatch(j)
    \/ \E j \in 1..(2 * MaxIds) : WorkerRunTimeline(j)
    \/ WorkerRunQueuedTimeline

SpecRun == Init /\ [][NextRun]_vars

\* A step of the body of the orchestrator task.  The body runs to its end:
\* every external request and every await has a timeout.
RunBody ==
    \/ GetOrCreateSummonerStep
    \/ FindExistingSummoner
    \/ GetMatchIdsForYear
    \/ AnalyzeExistingData
    \/ AnalyzeDataGapsStep
    \/ SubmitPendingMatch
    \/ AwaitPendingMatch
    \/ ProcessMissingMatch
    \/ AwaitMissingMatch
    \/ ProcessMissingTimeline
    \/ AwaitMissingTimeline
    \/ NextBatch
    \/ WorkListDone
    \/ UpdateYearlyStats

SpecRunFair == SpecRun /\ WF_vars(RunBody)

\* Every job that was submitted or enqueued has been executed.
QueuesDrained ==
    /\ timelineQueue = << >>
    /\ \A j \in DOMAIN rjobs : rjobs[j].st # "queued"

\* The workers of the pool consume their queues: a job that is queued is
\* executed.  A worker step (WorkerRunMatch, WorkerRunTimeline,
\* WorkerRunQueuedTimeline) is enabled exactly when QueuesDrained is false
\* and a behaviour has finitely many worker steps, so the condition is weak
\* fairness of the worker steps.
SpecRunWorkFair == SpecRunFair /\ []<>QueuesDrained

(***************************************************************************)
(* SpecConc: the two processors executed by several workers at the same    *)
(* time, next to the retention cleanup.  Every statement a task sends to   *)
(* the database is one step; the store runs in autocommit mode but for     *)
(* increment_stats, whose SELECT and UPDATE are in one transaction without *)
(* a row lock, so that another worker's statements may come in between.    *)
(***************************************************************************)
MaxConcInvocations == 3
MaxCleanups == 1

W(i) == conc.w[i]

PksOf(tbl) == {r.pk : r \in tbl}

\* A step of worker i that leaves it with the locals w.
WorkerStep(i, w) ==
    /\ conc' = [conc EXCEPT !.w[i] = w]
    /\ UNCHANGED <<job, gap, pre, hist, invocations, schedVars, run, rjobs, agg, listing>>

\* A step of worker i that also draws a primary key from the sequence seq.
WorkerInsert(i, w, seq) ==
    /\ conc' = [conc EXCEPT !.w[i] = w, !.seq[seq] = @ + 1]
    /\ UNCHANGED <<job, gap, pre, hist, invocations, schedVars, run, rjobs, agg, listing>>

\* A task is picked up by an idle worker.
CanStart(i) ==
    /\ W(i).pc \in {"idle", "done"}
    /\ \A k \in Workers : W(k).pc \in {"idle", "done"} => i <= k
    /\ invocations < MaxConcInvocations

StartTask(i, w) ==
    /\ CanStart(i)
    /\ invocations' = invocations + 1
    /\ conc' = [conc EXCEPT !.w[i] = w]
    /\ UNCHANGED <<storeVars, apiCalls, job, gap, pre, hist, schedVars, run, rjobs,
                   agg, listing>>

\* sync_match_data_atomic.delay(m, ..., p, year) reaches worker i.
ConcStartMatchTask(i, m, p) ==
    /\ StartTask(i, [IdleWorker EXCEPT !.task = "match", !.pc = "fetch", !.mid = m,
                                       !.puuid = p, !.idx = 1, !.attempts = 1])
    /\ UNCHANGED timelineQueue

\* The sub-record job a record processor enqueued reaches worker i.
ConcStartQueuedTimelineTask(i) ==
    /\ timelineQueue # << >>
    /\ StartTask(i, TimelineJob(Head(timelineQueue)) @@ IdleWorker)
    /\ timelineQueue' = Tail(timelineQueue)

\* sync_match_timeline_atomic.delay(m, ...) of a recovery run reaches worker i.
ConcStartTimelineTask(i, m) ==
    /\ StartTask(i, TimelineJob(m) @@ IdleWorker)
    /\ UNCHANGED timelineQueue

\* _fetch_match_data.  A fetch that fails ends the task before it has read
\* or written the store (see Spec); here the fetch succeeds.
ConcFetchMatchData(i) ==
    /\ W(i).task = "match" /\ W(i).pc = "fetch"
    /\ apiCalls' = apiCalls + 1
    /\ WorkerStep(i, AfterFetch([W(i) EXCEPT !.fetched = "ok"], "ok"))
    /\ UNCHANGED <<storeVars, timelineQueue>>

UniqueNotEnforced(tbl, col, v) ==
    FALSE

\* unique=True: an INSERT of a row whose column col holds v is refused with
\* an IntegrityError when a row with that value is there.
UniqueViolation(tbl, col, v) ==
    \E r \in tbl : r[col] = v

\* The Match row of _create_match_record for match id mid.
MatchDefaults(mid) ==
    [match_id |-> mid, game_creation |-> ParseDatetime(RemoteBody(mid).gameCreation),
     platform |-> DefaultPlatform]

\* obj.save() of update_or_create on the row found (and locked) by its get.
UpdateMatch(tbl, mid) ==
    {IF r.match_id = mid THEN [pk |-> r.pk] @@ MatchDefaults(mid) ELSE r : r \in tbl}

\* Match.objects.update_or_create, the SELECT: a row that is found is updated
\* under the row lock of the same transaction; otherwise the INSERT follows.
ConcGetMatch(i) ==
    /\ W(i).task = "match" /\ W(i).pc = "match"
    /\ IF \E r \in matchTbl : r.match_id = W(i).mid
       THEN /\ matchTbl' = UpdateMatch(matchTbl, W(i).mid)
            /\ WorkerStep(i, [W(i) EXCEPT !.pc = "part",
                                !.match = MatchRow(matchTbl, W(i).mid).pk])
       ELSE /\ matchTbl' = matchTbl
            /\ WorkerStep(i, [W(i) EXCEPT !.pc = "match_create"])
    /\ UNCHANGED <<summonerTbl, partTbl, timelineTbl, statsTbl, timelineQueue,
                   apiCalls>>

\* Match.objects.update_or_create, the INSERT: on an IntegrityError the row
\* another worker has inserted meanwhile is fetched and updated instead.
ConcCreateMatch(i) ==
    /\ W(i).task = "match" /\ W(i).pc = "match_create"
    /\ IF UniqueViolation(matchTbl, "match_id", W(i).mid)
       THEN /\ matchTbl' = UpdateMatch(matchTbl, W(i).mid)
            /\ WorkerStep(i, [W(i) EXCEPT !.pc = "part",
                                !.match = MatchRow(matchTbl, W(i).mid).pk,
                                !.lost_race = @ \cup {"match"}])
       ELSE /\ matchTbl' = matchTbl \cup
                             {[pk |-> conc.seq.match + 1] @@ MatchDefaults(W(i).mid)}
            /\ WorkerInsert(i, [W(i) EXCEPT !.pc = "part",
                                  !.match = conc.seq.match + 1], "match")
    /\ UNCHANGED <<summonerTbl, partTbl, timelineTbl, statsTbl, timelineQueue,
                   apiCalls>>

\* The entry of the body worker i is handling.
ConcEntry(i) == RemoteBody(W(i).mid).participants[W(i).idx]

\* _process_participants: the head of the loop, and the SELECT of
\* Summoner.objects.get_or_create for the current entry.
ConcGetSummoner(i) ==
    /\ W(i).task = "match" /\ W(i).pc = "part"
    /\ W(i).idx <= Len(RemoteBody(W(i).mid).participants)
    /\ LET e == ConcEntry(i)
       IN  WorkerStep(i,
              IF e.puuid = None THEN [W(i) EXCEPT !.idx = @ + 1]
              ELSE IF \E r \in summonerTbl : r.puuid = e.puuid
              THEN [W(i) EXCEPT !.pc = "prow",
                                !.summoner = SummonerRow(summonerTbl, e.puuid).pk]
              ELSE [W(i) EXCEPT !.pc = "sum_create"])
    /\ UNCHANGED <<storeVars, timelineQueue, apiCalls>>

\* Summoner.objects.get_or_create, the INSERT: on an IntegrityError the row
\* another worker has inserted meanwhile is fetched and used.
ConcCreateSummoner(i) ==
    /\ W(i).task = "match" /\ W(i).pc = "sum_create"
    /\ LET e == ConcEntry(i)
       IN  IF UniqueViolation(summonerTbl, "puuid", e.puuid)
           THEN /\ summonerTbl' = summonerTbl
                /\ WorkerStep(i, [W(i) EXCEPT !.pc = "prow",
                                    !.summoner = SummonerRow(summonerTbl, e.puuid).pk,
                                    !.lost_race = @ \cup {"summoner"}])
           ELSE /\ summonerTbl' = summonerTbl \cup
                       {[pk |-> conc.seq.summoner + 1, puuid |-> e.puuid,
                         summoner_id |-> e.puuid, name |-> "Unknown",
                         tag_line |-> None, platform |-> DefaultPlatform]}
                /\ WorkerInsert(i, [W(i) EXCEPT !.pc = "prow",
                                      !.summoner = conc.seq.summoner + 1], "summoner")
    /\ UNCHANGED <<matchTbl, partTbl, timelineTbl, statsTbl, timelineQueue, apiCalls>>

\* on_delete / ForeignKey: a row that refers to a Match row which is not
\* there is refused with an IntegrityError.
ParentMissing(mpk) ==
    mpk \notin PksOf(matchTbl)

ParentDeleted(w) ==
    Finish([w EXCEPT !.message = "parent deleted"], "permanent")

\* _create_match_participant: MatchParticipant.objects.update_or_create on
\* the unique pair (match, puuid), taken as one statement.
ConcCreateMatchParticipant(i) ==
    /\ W(i).task = "match" /\ W(i).pc = "prow"
    /\ LET e == ConcEntry(i)
           found == {r \in partTbl : r.match = W(i).match /\ r.puuid = e.puuid}
       IN  IF ParentMissing(W(i).match)
           THEN /\ partTbl' = partTbl
                /\ WorkerStep(i, ParentDeleted(W(i)))
           ELSE IF found # {}
           THEN /\ partTbl' = UpdateOrCreateParticipant(partTbl, W(i).match, e,
                                                        W(i).summoner)
                /\ WorkerStep(i, [W(i) EXCEPT !.pc = "incr",
                                    !.participant = (CHOOSE r \in found : TRUE).pk])
           ELSE /\ partTbl' = partTbl \cup
                       {[pk |-> conc.seq.participant + 1, match |-> W(i).match,
                         puuid |-> e.puuid] @@ ParticipantFields(e, W(i).summoner)}
                /\ WorkerInsert(i, [W(i) EXCEPT !.pc = "incr",
                                      !.participant = conc.seq.participant + 1],
                                "participant")
    /\ UNCHANGED <<matchTbl, summonerTbl, timelineTbl, statsTbl, timelineQueue,
                   apiCalls>>

\* increment_stats, stats = self.get_or_create_stats(): the row is read into
\* the worker's memory (and created with zeros when it is not there).
ConcIncrementRead(i) ==
    /\ W(i).task = "match" /\ W(i).pc = "incr"
    /\ LET found == {s \in statsTbl : /\ s.summoner = W(i).summoner
                                      /\ s.year = DEFAULT_MATCH_YEAR}
           fresh == [NewStats(statsTbl, W(i).summoner, DEFAULT_MATCH_YEAR)
                        EXCEPT !.pk = conc.seq.stats + 1]
       IN  IF found # {}
           THEN /\ statsTbl' = statsTbl
                /\ WorkerStep(i, [W(i) EXCEPT !.pc = "incr_write", !.stats = found])
           ELSE /\ statsTbl' = statsTbl \cup {fresh}
                /\ WorkerInsert(i, [W(i) EXCEPT !.pc = "incr_write",
                                      !.stats = {fresh}], "stats")
    /\ UNCHANGED <<matchTbl, summonerTbl, partTbl, timelineTbl, timelineQueue,
                   apiCalls>>

\* stats.save(): every column of the row is overwritten with the values of
\* the object in the worker's memory.
SaveStats(tbl, read, written) ==
    {s \in tbl : s.pk # read.pk} \cup {written}

\* increment_stats, from stats.total_matches += 1 to stats.save().
ConcIncrementWrite(i) ==
    /\ W(i).task = "match" /\ W(i).pc = "incr_write"
    /\ LET e == ConcEntry(i)
           s == CHOOSE x \in W(i).stats : TRUE
           p == [pk |-> W(i).participant, match |-> W(i).match, puuid |-> e.puuid]
                    @@ ParticipantFields(e, W(i).summoner)
       IN  statsTbl' = SaveStats(statsTbl, s,
                                 CalculateDerivedStats(Incremented(s, p, partTbl)))
    /\ WorkerStep(i, [W(i) EXCEPT !.pc = "part", !.idx = @ + 1, !.stats = {},
                                  !.increments = @ + 1])
    /\ UNCHANGED <<matchTbl, summonerTbl, partTbl, timelineTbl, timelineQueue,
                   apiCalls>>

\* _sync_timeline_if_needed and the return of the result dictionary.
ConcSyncTimelineIfNeeded(i) ==
    /\ W(i).task = "match" /\ W(i).pc = "part"
    /\ W(i).idx > Len(RemoteBody(W(i).mid).participants)
    /\ LET body == RemoteBody(W(i).mid)
           participant_puuids ==
               {body.participants[k].puuid : k \in 1..Len(body.participants)}
           needed == W(i).puuid \in participant_puuids
       IN  /\ timelineQueue' = IF needed THEN Append(timelineQueue, W(i).mid)
                               ELSE timelineQueue
           /\ WorkerStep(i, Finish([W(i) EXCEPT !.timeline_synced = needed], None))
    /\ UNCHANGED <<storeVars, apiCalls>>

\* _validate_match_exists
ConcValidateMatchExists(i) ==
    /\ W(i).task = "timeline" /\ W(i).pc = "validate"
    /\ WorkerStep(i, IF ~ \E r \in matchTbl : r.match_id = W(i).mid
                     THEN NotFound(W(i))
                     ELSE [W(i) EXCEPT !.pc = "check",
                                       !.match = MatchRow(matchTbl, W(i).mid).pk])
    /\ UNCHANGED <<storeVars, timelineQueue, apiCalls>>

\* _timeline_already_exists
ConcTimelineAlreadyExists(i) ==
    /\ W(i).task = "timeline" /\ W(i).pc = "check"
    /\ WorkerStep(i, IF \E t \in timelineTbl : t.match = W(i).match
                     THEN Finish([W(i) EXCEPT !.status = "already_exists"], None)
                     ELSE [W(i) EXCEPT !.pc = "tfetch"])
    /\ UNCHANGED <<storeVars, timelineQueue, apiCalls>>

\* _fetch_timeline_data
ConcFetchTimelineData(i) ==
    /\ W(i).task = "timeline" /\ W(i).pc = "tfetch"
    /\ apiCalls' = apiCalls + 1
    /\ WorkerStep(i, [W(i) EXCEPT !.pc = "tcreate", !.fetched = "ok"])
    /\ UNCHANGED <<storeVars, timelineQueue>>

DuplicateTimeline(w) ==
    Finish([w EXCEPT !.message = "duplicate timeline"], "permanent")

\* _create_timeline_record: MatchTimeline.objects.create; the one-to-one key
\* refuses a second row for the match with an IntegrityError.
ConcCreateTimelineRecord(i) ==
    /\ W(i).task = "timeline" /\ W(i).pc = "tcreate"
    /\ IF ParentMissing(W(i).match)
       THEN /\ timelineTbl' = timelineTbl
            /\ WorkerStep(i, ParentDeleted(W(i)))
       ELSE IF UniqueViolation(timelineTbl, "match", W(i).match)
       THEN /\ timelineTbl' = timelineTbl
            /\ WorkerStep(i, DuplicateTimeline(W(i)))
       ELSE /\ timelineTbl' = timelineTbl \cup
                                {[pk |-> conc.seq.timeline + 1, match |-> W(i).match]}
            /\ WorkerInsert(i, Finish([W(i) EXCEPT !.status = "created"], None),
                            "timeline")
    /\ UNCHANGED <<matchTbl, summonerTbl, partTbl, statsTbl, timelineQueue, apiCalls>>

KeepDependents(tbl, pks) ==
    tbl

\* on_delete=models.CASCADE: the rows that refer to a deleted Match row are
\* deleted with it.
CascadeDelete(tbl, pks) ==
    {r \in tbl : r.match \notin pks}

\* cleanup_old_data: old_matches.delete() for the Match rows created before
\* the cutoff, in one transaction.  Which rows are that old depends on the
\* time of their creation, which the model does not keep.
CleanupOldData(old) ==
    /\ conc.cleanups < MaxCleanups
    /\ old # {} /\ old \subseteq matchTbl
    /\ matchTbl' = matchTbl \ old
    /\ partTbl' = CascadeDelete(partTbl, PksOf(old))
    /\ timelineTbl' = CascadeDelete(timelineTbl, PksOf(old))
    /\ conc' = [conc EXCEPT !.cleanups = @ + 1]
    /\ UNCHANGED <<summonerTbl, statsTbl, procVars, schedVars, run, rjobs, agg, listing>>

NextConc ==
    \/ \E i \in Workers, m \in MatchIds : ConcStartMatchTask(i, m, AccountData.puuid)
    \/ \E i \in Workers : ConcStartQueuedTimelineTask(i)
    \/ \E i \in Workers, m \in MatchIds : ConcStartTimelineTask(i, m)
    \/ \E i \in Workers : ConcFetchMatchData(i)
    \/ \E i \in Workers : ConcGetMatch(i)
    \/ \E i \in Workers : ConcCreateMatch(i)
    \/ \E i \in Workers : ConcGetSummoner(i)
    \/ \E i \in Workers : ConcCreateSummoner(i)
    \/ \E i \in Workers : ConcCreateMatchParticipant(i)
    \/ \E i \in Workers : ConcIncrementRead(i)
    \/ \E i \in Workers : ConcIncrementWrite(i)
    \/ \E i \in Workers : ConcSyncTimelineIfNeeded(i)
    \/ \E i \in Workers : ConcValidateMatchExists(i)
    \/ \E i \in Workers : ConcTimelineAlreadyExists(i)
    \/ \E i \in Workers : ConcFetchTimelineData(i)
    \/ \E i \in Workers : ConcCreateTimelineRecord(i)
    \/ \E old \in SUBSET matchTbl : CleanupOldData(old)

SpecConc == Init /\ [][NextConc]_vars

(***************************************************************************)
(* SpecListing: RiotApiClient.get_match_ids_by_puuid and its pagination.   *)
(*                                                                         *)
(* The source keeps the matches of the player newest first; a match id is  *)
(* the position of the match in that history.  A request (start, count) is *)
(* answered with at most count ids from position start on; the source may  *)
(* answer with fewer ids than it holds.                                    *)
(***************************************************************************)
MaxHistory == 250

\* The lengths of the player's history at the source.
HistoryLengths == {0, 1, 100, 101, MaxHistory}

\* batch_size of _get_all_match_ids_paginated: "Maximum allowed by Riot API".
page_batch_size == 100

\* The default of the max_matches parameter.
DefaultMaxMatches == 1500

\* The arguments the function is called with: _get_match_ids_for_year calls
\* it with count=100, year=year and the default max_matches.
\* The year is 0 when the caller names none (year=None).
CountValues == {20, 100}
YearValues == {0, DEFAULT_MATCH_YEAR}
MaxMatchesValues == {0, 1, 100, 150, DefaultMaxMatches}

\* The year a match was created in: the two newest matches of the player
\* were created in DEFAULT_MATCH_YEAR, the older ones in the year before.
ThisYearMatches == 2
YearOfMatch(id) ==
    IF id <= ThisYearMatches THEN DEFAULT_MATCH_YEAR ELSE DEFAULT_MATCH_YEAR - 1

\* The ids at positions start+1 .. start+n of the history.
Page(start, n) ==
    [i \in 1..n |-> start + i]

\* The numbers of ids the source may answer a request (start, count) with.
PageLengths(start, count) ==
    0..Min(count, IF listing.history > start THEN listing.history - start ELSE 0)

\* if year: ... else: if max_matches > count: ...
Paginates(year, count, max_matches) ==
    year # 0 \/ max_matches > count

\* get_match_ids_by_puuid(puuid, start=0, count, year, max_matches) is called
\* for a player whose history at the source has n matches.
GetMatchIdsByPuuid(count, year, max_matches, n) ==
    /\ listing.pc \in {"idle", "done", "raised"}
    /\ listing' = [IdleListing EXCEPT
                     !.pc = IF Paginates(year, count, max_matches)
                            THEN "loop" ELSE "single",
                     !.year = year, !.count = count,
                     !.max_matches = max_matches, !.history = n]
    /\ UNCHANGED <<storeVars, procVars, schedVars, run, rjobs, agg, conc>>

CurrentBatchSizeUncapped(remaining) ==
    remaining

\* current_batch_size = min(batch_size, remaining)
CurrentBatchSize(remaining) ==
    Min(page_batch_size, remaining)

\* return all_match_ids: with a year given the ids are returned as they were
\* listed ("skipping year filtering ... all matches will be processed").
ReturnIds(l, ids) ==
    [l EXCEPT !.pc = "done", !.result = ids]

\* The end of an iteration that received n > 0 ids: break if fewer ids came
\* than were requested, else back to the loop condition.
AfterPage(l, n, current_batch_size) ==
    IF n < current_batch_size THEN ReturnIds(l, l.all_match_ids)
    ELSE [l EXCEPT !.pc = "loop"]

\* One iteration of the while loop of _get_all_match_ids_paginated: the
\* request of a page and what follows from the answer.  An error of the
\* request leaves the function as an exception.
PaginatedRequest ==
    /\ listing.pc = "loop"
    /\ Len(listing.all_match_ids) < listing.max_matches
    /\ LET remaining == listing.max_matches - Len(listing.all_match_ids)
           current_batch_size == CurrentBatchSize(remaining)
       IN  \E o \in ApiOutcomes, n \in PageLengths(listing.start, current_batch_size) :
              LET batch_match_ids == Page(listing.start, n)
                  asked == [listing EXCEPT
                              !.requests = Append(@,
                                  [start |-> listing.start,
                                   count |-> current_batch_size,
                                   page |-> IF o = "ok" THEN batch_match_ids
                                            ELSE << >>,
                                   outcome |-> o])]
              IN  listing' =
                     IF o # "ok"
                     THEN [asked EXCEPT !.pc = "raised", !.error = o]
                     ELSE IF batch_match_ids = << >>
                     THEN ReturnIds(asked, asked.all_match_ids)
                     ELSE AfterPage([asked EXCEPT
                                       !.all_match_ids = @ \o batch_match_ids,
                                       !.start = @ + Len(batch_match_ids)],
                                    n, current_batch_size)
    /\ UNCHANGED <<storeVars, procVars, schedVars, run, rjobs, agg, conc>>

\* The loop condition len(all_match_ids) < max_matches is false.
PaginatedReturn ==
    /\ listing.pc = "loop"
    /\ ~ (Len(listing.all_match_ids) < listing.max_matches)
    /\ listing' = ReturnIds(listing, listing.all_match_ids)
    /\ UNCHANGED <<storeVars, procVars, schedVars, run, rjobs, agg, conc>>

\* The branch without pagination: one request with the caller's start and
\* count, whose answer is returned as it is.
SingleRequest ==
    /\ listing.pc = "single"
    /\ \E o \in ApiOutcomes, n \in PageLengths(listing.start, listing.count) :
          LET asked == [listing EXCEPT
                          !.requests = Append(@,
                              [start |-> listing.start, count |-> listing.count,
                               page |-> IF o = "ok" THEN Page(listing.start, n)
                                        ELSE << >>,
                               outcome |-> o])]
          IN  listing' = IF o = "ok"
                         THEN [asked EXCEPT !.pc = "done",
                                            !.result = Page(listing.start, n)]
                         ELSE [asked EXCEPT !.pc = "raised", !.error = o]
    /\ UNCHANGED <<storeVars, procVars, schedVars, run, rjobs, agg, conc>>

NextListing ==
    \/ \E count \in CountValues, year \in YearValues,
          max_matches \in MaxMatchesValues, n \in HistoryLengths :
          GetMatchIdsByPuuid(count, year, max_matches, n)
    \/ PaginatedRequest
    \/ PaginatedReturn
    \/ SingleRequest

SpecListing == Init /\ [][NextListing]_vars

\* The function runs to its end: every request has a timeout.
SpecListingFair ==
    SpecListing /\ WF_vars(PaginatedRequest \/ PaginatedReturn \/ SingleRequest)

(***************************************************************************)
(* Properties of the gap analysis, the processors and the retry wrapper,   *)
(* checked under Spec.                                                     *)
(***************************************************************************)
StoredIds == {r.match_id : r \in matchTbl}

WithTimeline == {r.match_id : r \in {x \in matchTbl : HasTimeline(x)}}

GapSetsCorrect ==
    /\ gap.present \cap Range(gap.missingRecords) = {}
    /\ gap.present \cup Range(gap.missingRecords) = Range(gap.requested)
    /\ gap.present = Range(gap.requested) \cap StoredIds
    /\ gap.missingSubRecords \subseteq gap.present
    /\ gap.missingSubRecords = gap.present \ WithTimeline

\* C1: the gap analysis returns present and missingRecords that are disjoint
\* and together are the requested ids, and missingSubRecords that is exactly
\* the set of present matches without a timeline row; the step that produces
\* the result issues no external fetch and writes nothing to the store.
C1_GapAnalysis ==
    /\ [](GapSetsCorrect)
    /\ [][gap' # NoGap =>
             UNCHANGED <<matchTbl, summonerTbl, partTbl, timelineTbl, statsTbl,
                         timelineQueue, apiCalls>>]_vars

C1_Witness ==
    /\ gap.present # {}
    /\ gap.missingRecords # << >>
    /\ gap.missingSubRecords # {}

\* C2: once an invocation of the record processor for a match id has
\* succeeded, the counters of every YearlyAggregate row after any further
\* invocation for the same match id equal their values after that first
\* success.
C2_NoDoubleCount ==
    (job.task = "match" /\ job.pc = "done" /\ job.mid = hist.mid /\ hist.done)
        => Counters(statsTbl) = Counters(hist.stats)

RowsOfMatch(mtbl, mid) == {r \in mtbl : r.match_id = mid}

PartsOfMatch(mtbl, ptbl, mid) ==
    {r \in ptbl : \E m \in RowsOfMatch(mtbl, mid) : r.match = m.pk}

BodyPuuids(mid) ==
    {RemoteBody(mid).participants[i].puuid :
        i \in 1..Len(RemoteBody(mid).participants)} \ {None}

\* C3: an invocation of the record processor that fails leaves the Match row
\* and the MatchParticipant rows of its match exactly as they were before the
\* invocation; one that succeeds leaves the Match row and all participant
\* rows of the body present together.
C3_UnitOfWork ==
    (job.task = "match" /\ job.pc = "done") =>
        IF job.success
        THEN /\ RowsOfMatch(matchTbl, job.mid) # {}
             /\ {r.puuid : r \in PartsOfMatch(matchTbl, partTbl, job.mid)}
                    = BodyPuuids(job.mid)
        ELSE /\ RowsOfMatch(matchTbl, job.mid) = RowsOfMatch(pre.matches, job.mid)
             /\ PartsOfMatch(matchTbl, partTbl, job.mid)
                    = PartsOfMatch(pre.matches, pre.participants, job.mid)

\* C4: the store never holds two Match rows with one match id nor two
\* MatchParticipant rows for one (match, puuid) pair, and after a successful
\* invocation for a match id it holds exactly one Match row with that id and
\* exactly one MatchParticipant row per (match, puuid) pair of the body.
C4_UniqueRows ==
    /\ \A r1, r2 \in matchTbl : r1.match_id = r2.match_id => r1 = r2
    /\ \A r1, r2 \in partTbl :
          (r1.match = r2.match /\ r1.puuid = r2.puuid) => r1 = r2
    /\ (job.task = "match" /\ job.pc = "done" /\ job.success) =>
          /\ Cardinality(RowsOfMatch(matchTbl, job.mid)) = 1
          /\ \A p \in BodyPuuids(job.mid) :
                Cardinality({r \in PartsOfMatch(matchTbl, partTbl, job.mid) :
                                r.puuid = p}) = 1
          /\ Cardinality(PartsOfMatch(matchTbl, partTbl, job.mid))
                = Cardinality(BodyPuuids(job.mid))

\* A second successful invocation for a match whose rows were already stored.
C4_Witness ==
    /\ job.task = "match" /\ job.pc = "done" /\ job.success
    /\ Cardinality(PartsOfMatch(pre.matches, pre.participants, job.mid)) = 2

\* C9: a job is executed at most 1 + max_retries times, and a job that ends
\* in failure on a transient error has used up all the retries of its class.
C9_RetriedUntilExhausted ==
    /\ job.task # None => job.attempts <= MaxRetries(job.task) + 1
    /\ (job.pc = "done" /\ job.err = "transient") =>
          job.attempts = MaxRetries(job.task) + 1

\* C10: a job that hits a permanent failure is executed exactly once and ends
\* with a failure outcome.
C10_PermanentNotRetried ==
    (job.pc = "done" /\ job.err = "permanent") =>
        (job.attempts = 1 /\ ~ job.success)

\* The sub-record job was requested for a match that is not stored.
C10_Witness ==
    /\ job.task = "timeline" /\ job.pc = "done" /\ job.err = "permanent"
    /\ RowsOfMatch(matchTbl, job.mid) = {}
    /\ ~ job.success

(***************************************************************************)
(* Properties of the batch scheduler, checked under SpecSched.             *)
(***************************************************************************)
NumPending == Len(sched.pending)

Occurrences(q, x) == Cardinality({i \in 1..Len(q) : q[i] = x})

\* C5: on return every job that was queued has been awaited, the submission
\* of every id was attempted, every id is either counted as a success or
\* listed once as failed, and successes + length of the failed list = N.
C5_EveryIdAccounted ==
    sched.pc = "done" =>
        /\ sched.processed_matches + Len(sched.failed_matches) = NumPending
        /\ sched.processed_matches
              = Cardinality({id \in DOMAIN jobs : jobs[id].awaited = "ok"})
        /\ \A id \in DOMAIN jobs :
              /\ jobs[id].batch # -1
              /\ jobs[id].queued => jobs[id].awaited # "no"
              /\ Occurrences(sched.failed_matches, id)
                    = IF jobs[id].awaited = "ok" THEN 0 ELSE 1

\* A run with a success, a job that could not be queued and a failed await.
C5_Witness ==
    /\ sched.pc = "done"
    /\ \E id \in DOMAIN jobs : jobs[id].awaited = "ok"
    /\ \E id \in DOMAIN jobs : ~ jobs[id].queued
    /\ \E id \in DOMAIN jobs : jobs[id].awaited \in {"failed", "raised", "timeout"}

\* C6: when the submission of a job of a later batch has been attempted,
\* every queued job of every earlier batch has delivered its result to the
\* scheduler or has had its await time out.
C6_DrainedBeforeNextBatch ==
    \A j, k \in DOMAIN jobs :
        (jobs[j].queued /\ jobs[k].batch > jobs[j].batch) =>
            \/ jobs[j].awaited = "timeout"
            \/ jobs[j].awaited \in {"ok", "failed", "raised"}
                  /\ jobs[j].awaited = jobs[j].st

\* A job of the second batch is queued after a job of the first batch was
\* awaited with a result.
C6_Witness ==
    \E j, k \in DOMAIN jobs :
        /\ jobs[j].queued /\ jobs[k].queued
        /\ jobs[k].batch > jobs[j].batch
        /\ jobs[j].awaited = "ok"

\* C7: in every rate window the external fetches made on behalf of the run
\* number at most the ceiling R.
C7_RateCeiling ==
    calls <= RateCeiling

CeilDiv(n, r) == (n + r - 1) \div r

JobsOfBatch(b) == {id \in DOMAIN jobs : jobs[id].batch = b}

\* C8: a batch never has more than R jobs; a pause is made only after a batch
\* that is not the last one has been drained and before any job of the next
\* batch is submitted, and the next batch starts no earlier than 10 seconds
\* after the pause began; on return ceil(N/R) batches were formed and
\* max(0, ceil(N/R) - 1) pauses made; with N = 0 nothing is submitted, no
\* pause is made and the result is 0 successes and an empty failed list.
C8_BatchesAndPauses ==
    /\ \A b \in 0..MaxPending : Cardinality(JobsOfBatch(b)) <= batch_size
    /\ sched.pc \in {"submit", "await"} =>
          /\ sched.pauses = sched.batch_num
          /\ sched.batch_num > 0 => now * WindowSeconds >= sched.wake_at
    /\ sched.pc = "sleep" =>
          /\ sched.pauses = sched.batch_num + 1
          /\ sched.batch_num + 1 < CeilDiv(NumPending, batch_size)
          /\ \A id \in DOMAIN jobs :
                /\ jobs[id].batch <= sched.batch_num
                /\ jobs[id].queued => jobs[id].awaited # "no"
    /\ sched.pc = "done" =>
          /\ Cardinality({jobs[id].batch : id \in DOMAIN jobs})
                = CeilDiv(NumPending, batch_size)
          /\ sched.pauses = IF NumPending = 0 THEN 0
                            ELSE CeilDiv(NumPending, batch_size) - 1
          /\ NumPending = 0 =>
                /\ sched.processed_matches = 0
                /\ sched.failed_matches = << >>
                /\ jobs = << >>

\* A run of two batches that has returned after one pause.
C8_Witness ==
    /\ sched.pc = "done"
    /\ sched.pauses = 1
    /\ NumPending > batch_size

(***************************************************************************)
(* Properties of the aggregator, checked under SpecAgg.                    *)
(***************************************************************************)
RatioFields ==
    {"win_rate", "kda_ratio", "average_kills", "average_deaths", "average_assists",
     "average_gold_per_match", "average_cs_per_match"}

RowsOfSummoner(sm) == {p \in partTbl : p.summoner = sm.pk}

\* Every participant row of the summoner was handed to increment_stats exactly
\* once and the summoner's aggregate was never written by update_stats.
IncrementedOncePerRow(sm) ==
    /\ RowsOfSummoner(sm) # {}
    /\ sm.pk \notin agg.upd
    /\ \A p \in RowsOfSummoner(sm) : Occurrences(agg.incs, p.pk) = 1

\* C18: when increment_stats was applied exactly once to every participant
\* row of a player committed by the record processor, the counters and the
\* derived ratios of the player's aggregate equal those a full recomputation
\* yields over the same rows.
C18_IncrementalEqualsRecomputed ==
    \A sm \in summonerTbl :
        IncrementedOncePerRow(sm) =>
            \E s \in statsTbl :
                /\ s.summoner = sm.pk /\ s.year = DEFAULT_MATCH_YEAR
                /\ \A f \in CounterFields \cup RatioFields :
                      s[f] = CalculateStatsFromMatches(partTbl, matchTbl, sm,
                                                       DEFAULT_MATCH_YEAR)[f]

\* The fraction r is the value n / d.
RatioIs(r, n, d) ==
    r[2] > 0 /\ r[1] * d = n * r[2]

\* C19: in every aggregate row the derived ratios are the pure function of
\* the row's counters: win rate = wins / matches * 100, each average = its
\* sum / matches, KDA = (kills + assists) / deaths, or kills + assists when
\* deaths = 0, and every ratio is 0 when matches = 0.
C19_DerivedRatios ==
    \A s \in statsTbl :
        IF s.total_matches = 0
        THEN \A f \in RatioFields : s[f][1] = 0
        ELSE /\ RatioIs(s.win_rate, s.wins * 100, s.total_matches)
             /\ RatioIs(s.average_kills, s.total_kills, s.total_matches)
             /\ RatioIs(s.average_deaths, s.total_deaths, s.total_matches)
             /\ RatioIs(s.average_assists, s.total_assists, s.total_matches)
             /\ RatioIs(s.average_gold_per_match, s.total_gold_earned, s.total_matches)
             /\ RatioIs(s.average_cs_per_match,
                        s.total_minions_killed + s.total_neutral_minions_killed,
                        s.total_matches)
             /\ IF s.total_deaths > 0
                THEN RatioIs(s.kda_ratio, s.total_kills + s.total_assists,
                             s.total_deaths)
                ELSE RatioIs(s.kda_ratio, s.total_kills + s.total_assists, 1)

\* A row kept by increments with no death and a KDA of kills + assists, next
\* to a row just written by the full recomputation.
C19_Witness ==
    /\ \E s \in statsTbl : /\ s.total_matches > 0 /\ s.total_deaths = 0
                            /\ s.kda_ratio = <<3, 1>>
                            /\ s.summoner \notin agg.upd
    /\ agg.last.op = "update"
    /\ \E s \in statsTbl : s.summoner = agg.last.summoner

\* C20: right after update_stats the aggregate row is, but for its primary
\* key, the row update_stats writes when no aggregate row existed before, so
\* it depends on the stored participant rows only; and a second update_stats
\* changes nothing.
C20_RecomputationOverwrites ==
    agg.last.op = "update" =>
        LET sm == CHOOSE x \in summonerTbl : x.pk = agg.last.summoner
            row == StatsRow(statsTbl, sm.pk, DEFAULT_MATCH_YEAR)
            fresh == StatsRow(UpdateStats({}, partTbl, matchTbl, sm,
                                          DEFAULT_MATCH_YEAR),
                              sm.pk, DEFAULT_MATCH_YEAR)
        IN  /\ \A f \in DOMAIN row \ {"pk"} : row[f] = fresh[f]
            /\ UpdateStats(statsTbl, partTbl, matchTbl, sm, DEFAULT_MATCH_YEAR)
                   = statsTbl

\* The recomputation replaced a row that increments had brought to other
\* values, and found at least one match to count.
C20_Witness ==
    /\ agg.last.op = "update"
    /\ \E s \in agg.last.prior : s.total_matches > 0 /\ s \notin statsTbl
    /\ \E s \in statsTbl : s.summoner = agg.last.summoner /\ s.total_matches > 0

\* C28: an aggregate row with 0 total deaths and kills + assists > 0 has
\* kda_ratio = kills + assists exactly, whether the row was last written by
\* increment_stats or by update_stats.
C28_PerfectKda ==
    \A s \in statsTbl :
        (s.total_deaths = 0 /\ s.total_kills + s.total_assists > 0) =>
            s.kda_ratio = <<s.total_kills + s.total_assists, 1>>

\* A row with no death just written by the full recomputation, next to a row
\* with no death that only increments have written.
C28_Witness ==
    /\ agg.last.op = "update"
    /\ \E s \in statsTbl : /\ s.summoner = agg.last.summoner
                            /\ s.total_matches > 0 /\ s.total_deaths = 0
                            /\ s.kda_ratio = <<6, 1>>
    /\ \E s \in statsTbl : /\ s.summoner \notin agg.upd
                            /\ s.total_matches > 0 /\ s.total_deaths = 0
                            /\ s.kda_ratio = <<3, 1>>

(***************************************************************************)
(* Properties of the orchestrator, checked under SpecRun and SpecRunFair.  *)
(***************************************************************************)
Terminal == {"done", "failed"}

MatchJobs == {j \in DOMAIN rjobs : rjobs[j].kind = "match"}

TimelineJobs == {j \in DOMAIN rjobs : rjobs[j].kind = "timeline"}

\* The match ids with a Match row when the run was started.
StoredAtStart == {r.match_id : r \in run.start.matches}

\* C11: a run whose step failed is in the failed state with the error
\* recorded, the error was raised to the caller and the task returned no
\* ordinary value.
C11_StepFailureRaises ==
    run.pc = "failed" =>
        /\ run.error # None
        /\ run.raised
        /\ run.result = None

Rank(step) ==
    CASE step = "idle" -> 0
      [] step = "fetch_identity" -> 1
      [] step = "fetch_remote_ids" -> 2
      [] step = "analyze_gaps" -> 3
      [] step \in {"dispatch_batches", "await_results"} -> 4
      [] step = "update_aggregates" -> 5
      [] step = "done" -> 6
      [] step = "failed" -> 6

\* C13: a run starts at fetch_identity; each change of step goes to the next
\* step of the fixed order (dispatch_batches and await_results alternating
\* within their phase) or to failed; done and failed are left only by the
\* start of a new run; and every run that was started ends in done or failed.
C13_StepOrder ==
    /\ [][run.pc' # run.pc =>
             IF run.pc \in Terminal \cup {"idle"}
             THEN run.pc' = "fetch_identity" /\ run.n' = run.n + 1
             ELSE \/ run.pc' = "failed"
                  \/ Rank(run.pc') = Rank(run.pc) + 1
                  \/ Rank(run.pc') = 4 /\ Rank(run.pc) = 4]_vars
    /\ (run.pc \notin Terminal \cup {"idle"}) ~> (run.pc \in Terminal)

\* A recovery run that went through every step and both dispatch phases.
C13_Witness ==
    /\ run.pc = "done" /\ run.mode = "recover"
    /\ run.processed_matches > 0 /\ run.processed_timelines > 0

\* The ids of the record jobs the run has submitted, in order of submission.
SubmittedMatches ==
    LET F[k \in 0..Len(rjobs)] ==
            IF k = 0 THEN << >>
            ELSE IF rjobs[k].kind = "match" THEN Append(F[k - 1], rjobs[k].mid)
            ELSE F[k - 1]
    IN  F[Len(rjobs)]

\* C14 as stated: a fresh sync run that has dispatched its jobs has submitted
\* a record job for every id of the listing, stored or not.
C14_FreshSyncSubmitsAll ==
    (run.mode = "sync" /\ run.pc \in {"update_aggregates", "done"}) =>
        \A m \in Range(run.match_ids) : \E j \in MatchJobs : rjobs[j].mid = m

NotStoredAtStart(m) == m \notin StoredAtStart

\* C14 amended: a fresh sync run that has dispatched its jobs has submitted
\* a record job for exactly the listed ids that had no Match row, in the
\* order of the listing, and none for an id whose Match row was stored.
C14_FreshSyncSubmitsPending ==
    (run.mode = "sync" /\ run.pc \in {"update_aggregates", "done"}) =>
        /\ SubmittedMatches = SelectSeq(run.match_ids, NotStoredAtStart)
        /\ run.existing = Range(run.match_ids) \cap StoredAtStart

\* A fresh sync whose listing held a stored id and an id that was not stored.
C14_Witness ==
    /\ run.mode = "sync" /\ run.pc = "done"
    /\ run.existing # {}
    /\ MatchJobs # {}

\* C15: a recovery run submits no record job for an id in present and no
\* sub-record job for an id outside missingSubRecords, and the Match row and
\* the MatchParticipant rows of every match stored when the run started stay
\* as they were, one Match row per id.
C15_RecoveryOnlyMissing ==
    run.mode = "recover" =>
        /\ \A j \in MatchJobs : rjobs[j].mid \notin run.existing
        /\ \A j \in TimelineJobs : rjobs[j].mid \in Range(run.missing_timelines)
        /\ Range(run.missing_timelines) \subseteq run.existing
        /\ \A m \in StoredAtStart :
              /\ RowsOfMatch(matchTbl, m) = RowsOfMatch(run.start.matches, m)
              /\ Cardinality(RowsOfMatch(matchTbl, m)) = 1
              /\ PartsOfMatch(matchTbl, partTbl, m)
                    = PartsOfMatch(run.start.matches, run.start.participants, m)

\* A recovery run that found a stored match, fetched a missing one and the
\* timeline of a stored one.
C15_Witness ==
    /\ run.mode = "recover" /\ run.pc = "done"
    /\ run.existing # {}
    /\ \E j \in MatchJobs : rjobs[j].st = "ok"
    /\ \E j \in TimelineJobs : rjobs[j].st = "ok"
    /\ \E m \in run.existing : PartsOfMatch(matchTbl, partTbl, m) # {}

\* C16: after a recovery run over n distinct ids, some stored with the
\* player's participant row and the others missing, in which every job
\* succeeded and the recomputation was made, the player's aggregate for the
\* year has total_matches = n.
C16_RecoveryTotalMatches ==
    (/\ run.mode = "recover" /\ RunClean
     /\ run.existing # {} /\ MatchJobs # {}
     /\ Cardinality(Range(run.match_ids)) = Len(run.match_ids)
     /\ \A m \in Range(run.match_ids) :
           \E p \in PartsOfMatch(matchTbl, partTbl, m) : p.summoner = run.summoner)
    => \E s \in statsTbl :
          /\ s.summoner = run.summoner /\ s.year = DEFAULT_MATCH_YEAR
          /\ s.total_matches = Len(run.match_ids)

\* A fresh sync run that follows a fresh sync run over the same listing, both
\* with every job succeeding and the recomputation made.
SecondFreshSync ==
    /\ run.mode = "sync" /\ RunClean
    /\ run.prev.mode = "sync" /\ run.prev.clean
    /\ run.prev.match_ids = run.match_ids

\* C17: after the second of two such fresh sync runs the numbers of Match,
\* MatchParticipant and MatchTimeline rows and the player's aggregate are
\* what they were after the first.
C17_FreshSyncIdempotent ==
    SecondFreshSync =>
        /\ RowCounts = run.prev.rows
        /\ {s \in statsTbl : s.summoner = run.summoner} = run.prev.stats

\* The two runs synchronised a match that the recomputation counts.
C17_Witness ==
    /\ SecondFreshSync
    /\ run.match_ids # << >>
    /\ \E s \in run.prev.stats : s.total_matches > 0
    /\ timelineTbl # {}

(***************************************************************************)
(* Properties of the Sub-record Processor and of a failed fetch, checked   *)
(* under Spec.                                                             *)
(***************************************************************************)
\* The invocation being executed is of the Sub-record Processor and is about
\* to make its existence checks.
AtValidate == job.task = "timeline" /\ job.pc = "validate"

StoredWithTimeline(mid) ==
    \E r \in matchTbl : r.match_id = mid /\ \E t \in timelineTbl : t.match = r.pk

\* C23: invoked for a match that already has a timeline row, the Sub-record
\* Processor returns success with status already_exists in that very step,
\* issues no external fetch and writes nothing to the store; and the status
\* already_exists is only ever that of a finished, successful invocation.
C23_AlreadyExistsShortCircuit ==
    /\ [][(AtValidate /\ StoredWithTimeline(job.mid)) =>
            (/\ job'.pc = "done" /\ job'.success
             /\ job'.status = "already_exists"
             /\ apiCalls' = apiCalls
             /\ UNCHANGED <<storeVars, timelineQueue>>)]_vars
    /\ [](job.status = "already_exists" =>
            (job.pc = "done" /\ job.success /\ StoredWithTimeline(job.mid)))

C23_Witness ==
    /\ job.task = "timeline" /\ job.pc = "done"
    /\ job.status = "already_exists" /\ job.success
    /\ StoredWithTimeline(job.mid)

\* C26: invoked for a match id that has no Match row, the Sub-record
\* Processor ends in that very step with a failure whose error says the match
\* was not found, issues no external fetch and creates no row.
C26_MatchNotFound ==
    /\ [][(AtValidate /\ RowsOfMatch(matchTbl, job.mid) = {}) =>
            (/\ job'.pc = "done" /\ ~ job'.success
             /\ job'.err # None /\ job'.message = "Match not found"
             /\ apiCalls' = apiCalls
             /\ UNCHANGED <<storeVars, timelineQueue>>)]_vars
    /\ [](job.message = "Match not found" =>
            (job.task = "timeline" /\ job.pc = "done" /\ ~ job.success))

C26_Witness ==
    /\ job.task = "timeline" /\ job.pc = "done" /\ ~ job.success
    /\ job.message = "Match not found"
    /\ RowsOfMatch(matchTbl, job.mid) = {}
    /\ matchTbl # {}

\* C29: a record processor invocation whose external fetch failed has ended
\* in failure, and the store and the queue of sub-record jobs are as they were
\* when the invocation began.
C29_FetchFailureNoPartialRecord ==
    (job.task = "match" /\ job.fetched \notin {None, "ok"}) =>
        /\ job.pc = "done" /\ ~ job.success
        /\ matchTbl = pre.matches /\ summonerTbl = pre.summoners
        /\ partTbl = pre.participants /\ statsTbl = pre.stats
        /\ timelineTbl = pre.timelines /\ timelineQueue = pre.queue

C29_Witness ==
    /\ job.task = "match" /\ job.pc = "done"
    /\ job.fetched = "transient" /\ ~ job.success
    /\ matchTbl # {} /\ RowsOfMatch(matchTbl, job.mid) = {}

(***************************************************************************)
(* Properties of the final recomputation of a run, checked under SpecRun.  *)
(***************************************************************************)
BeforeUpdate ==
    {"fetch_identity", "fetch_remote_ids", "analyze_gaps", "dispatch_batches",
     "await_results", "update_aggregates"}

\* C27: a run that reports done has invoked the full recomputation exactly
\* once; the invocation is made in the step update_aggregates, when the work
\* lists are exhausted and the result of every job the run submitted has been
\* collected, and it is followed at once by done.
C27_RecomputedOnce ==
    /\ [](run.pc = "done" => run.stats_calls = 1)
    /\ [](run.pc \in BeforeUpdate => run.stats_calls = 0)
    /\ [][run'.stats_calls = run.stats_calls + 1 =>
            (/\ run.pc = "update_aggregates" /\ run'.pc = "done"
             /\ run.todo = << >> /\ run.inflight = << >>
             /\ (run.mode = "recover" => run.phase = "timelines")
             /\ \A j \in DOMAIN rjobs : rjobs[j].awaited # "no")]_vars

\* A recovery run is done after every record job and every sub-record job it
\* submitted failed or timed out.
C27_Witness ==
    /\ run.pc = "done" /\ run.mode = "recover" /\ run.stats_calls = 1
    /\ MatchJobs # {} /\ TimelineJobs # {}
    /\ run.processed_matches = 0 /\ run.processed_timelines = 0
    /\ run.failed_matches # << >> /\ run.failed_timelines # << >>

\* C30: a run whose final recomputation failed is in the failed state with
\* the error recorded.
C30_RecomputationFailureFails ==
    (run.stats_calls = 1 /\ ~ run.stats_updated) =>
        (run.pc = "failed" /\ run.error # None)

(***************************************************************************)
(* Properties of concurrent executions, checked under SpecConc.            *)
(***************************************************************************)
\* Exactly two record processors were executed, by the two workers at the
\* same time and for two different matches; both succeeded and no cleanup
\* was made.
TwoProcessorsDone ==
    /\ invocations = 2 /\ conc.cleanups = 0
    /\ \A i \in Workers : W(i).task = "match" /\ W(i).pc = "done" /\ W(i).success
    /\ W(1).mid # W(2).mid

\* C21: after two record processors for two different matches ran at the
\* same time on an empty store, the aggregate of every player reflects each
\* of the player's participant rows: total_matches is the number of rows and
\* the sums are the sums over the rows.
C21_NoLostIncrement ==
    TwoProcessorsDone =>
        \A sm \in summonerTbl :
            \E s \in statsTbl :
                /\ s.summoner = sm.pk /\ s.year = DEFAULT_MATCH_YEAR
                /\ s.total_matches = Cardinality(RowsOfSummoner(sm))
                /\ s.total_kills = SumOf(RowsOfSummoner(sm), "kills")
                /\ s.total_deaths = SumOf(RowsOfSummoner(sm), "deaths")
                /\ s.total_assists = SumOf(RowsOfSummoner(sm), "assists")
                /\ s.total_gold_earned = SumOf(RowsOfSummoner(sm), "gold_earned")

\* C22: there is one Summoner row per puuid and one Match row per match id
\* in every state, and a worker that lost the race for the creation of a row
\* holds the row that exists and, when no cleanup interfered, ends its task
\* with success.
C22_RacesConverge ==
    /\ \A a, b \in summonerTbl : a.puuid = b.puuid => a = b
    /\ \A a, b \in matchTbl : a.match_id = b.match_id => a = b
    /\ \A i \in Workers :
          /\ ("summoner" \in W(i).lost_race /\ W(i).pc # "sum_create") =>
                W(i).summoner \in PksOf(summonerTbl)
          /\ (W(i).lost_race # {} /\ conc.cleanups = 0) =>
                /\ W(i).match \in PksOf(matchTbl)
                /\ W(i).err = None
                /\ W(i).pc = "done" => W(i).success

\* Both workers processed the same match at the same time; one lost the race
\* for the Match row, one lost a race for a Summoner row, both succeeded.
C22_Witness ==
    /\ conc.cleanups = 0
    /\ \A i \in Workers : W(i).task = "match" /\ W(i).pc = "done" /\ W(i).success
    /\ \E i \in Workers : "match" \in W(i).lost_race
    /\ \E i \in Workers : "summoner" \in W(i).lost_race
    /\ Cardinality(matchTbl) = 1

\* C24: a match has at most one MatchTimeline row in every state, and no
\* invocation of the Sub-record Processor ends in the failure of a second
\* create for a match that has its row.
C24_TimelineCreatedOnce ==
    /\ \A a, b \in timelineTbl : a.match = b.match => a = b
    /\ \A i \in Workers : W(i).message # "duplicate timeline"

\* C25: every MatchTimeline row and every MatchParticipant row refers to a
\* Match row that is in the store.
C25_ChildrenHaveParent ==
    /\ \A t \in timelineTbl : t.match \in PksOf(matchTbl)
    /\ \A p \in partTbl : p.match \in PksOf(matchTbl)

\* The cleanup deleted the Match row a worker was about to attach a row to,
\* and the rows of another match are still stored.
C25_Witness ==
    /\ conc.cleanups = 1
    /\ \E i \in Workers : W(i).pc = "done" /\ W(i).message = "parent deleted"
    /\ partTbl # {} /\ timelineTbl # {}

(***************************************************************************)
(* The identity step of the orchestrator runs (SpecRun).                   *)
(***************************************************************************)
\* The five tables are as they were when the run was started.
StoreAsAtStart ==
    /\ matchTbl = run.start.matches
    /\ partTbl = run.start.participants
    /\ summonerTbl = run.start.summoners
    /\ statsTbl = run.start.stats
    /\ timelineTbl = run.start.timelines

\* C31: a run whose fetch_identity step failed (the lookup of a fresh sync
\* failed, or the recovery run found no player) is in the failed state with
\* the error recorded; it made no request for the remote id listing,
\* submitted no record or sub-record job, made no full recomputation and
\* left every table as it was when the run began.
C31_IdentityFailureFailsRun ==
    run.failed_at = "fetch_identity" =>
        /\ run.pc = "failed" /\ run.error # None
        /\ run.summoner = 0
        /\ run.ids_calls = 0 /\ run.match_ids = << >>
        /\ rjobs = << >> /\ timelineQueue = << >>
        /\ run.stats_calls = 0 /\ ~ run.stats_updated
        /\ StoreAsAtStart

\* A second run, a fresh sync over a store that holds rows and aggregates,
\* failed in its identity step.
C31_Witness ==
    /\ run.failed_at = "fetch_identity" /\ run.pc = "failed"
    /\ run.mode = "sync" /\ run.n = 2
    /\ matchTbl # {} /\ statsTbl # {}

\* C32: a recovery run for the player the source knows, started over a
\* store with no Summoner row of that player, leaves its fetch_identity step
\* by going on to fetch_remote_ids with the Summoner row of the player
\* created.
C32_RecoveryCreatesIdentity ==
    [][(/\ run.mode = "recover" /\ run.pc = "fetch_identity"
        /\ ExistingSummoners(summonerTbl) = {}
        /\ run'.pc # run.pc)
       => /\ run'.pc = "fetch_remote_ids"
          /\ \E r \in summonerTbl' :
                r.puuid = AccountData.puuid /\ r.pk = run'.summoner]_vars

(***************************************************************************)
(* The sub-record job of the record processor (Spec).                      *)
(***************************************************************************)
\* The invocation of the record processor has returned its result.
RecordReturned ==
    job.task = "match" /\ job.pc = "done" /\ job.success

\* The invocation has enqueued one sub-record job, for its match.
EnqueuedByInvocation ==
    timelineQueue = Append(pre.queue, job.mid)

\* The Match row of the invocation's match and the participant row of every
\* entry of the body that names a player are stored.
RecordAndParticipantsStored ==
    /\ RowsOfMatch(matchTbl, job.mid) # {}
    /\ BodyPuuids(job.mid)
          \subseteq {r.puuid : r \in PartsOfMatch(matchTbl, partTbl, job.mid)}

\* A sub-record job is enqueued by the last step of a record processor
\* invocation only, for its match, when the originating player is among the
\* participants of the body and the Match row and the participant rows are
\* stored; the result dictionary then has timeline_synced true.  An
\* invocation that has returned has enqueued one job or none, and
\* timeline_synced is true exactly when it enqueued one; an invocation that
\* failed enqueued none.
EnqueueOrderAndFlag ==
    /\ [][Len(timelineQueue') > Len(timelineQueue) =>
            /\ job.task = "match" /\ job.pc = "part"
            /\ job.puuid \in BodyPuuids(job.mid)
            /\ RecordAndParticipantsStored
            /\ UNCHANGED <<matchTbl, partTbl>>
            /\ timelineQueue' = Append(timelineQueue, job.mid)
            /\ job'.pc = "done" /\ job'.success /\ job'.timeline_synced]_vars
    /\ [](RecordReturned =>
            /\ job.timeline_synced <=> EnqueuedByInvocation
            /\ ~ job.timeline_synced => timelineQueue = pre.queue)
    /\ [](job.task = "match" /\ job.pc # "done" => timelineQueue = pre.queue)
    /\ [](job.task = "match" /\ job.pc = "done" /\ ~ job.success
            => timelineQueue = pre.queue)

\* C33 as stated: besides the order and the flag, an invocation that has
\* returned has enqueued the sub-record job if and only if the originating
\* player is among the participants of the body.
C33_EnqueuedIffParticipant ==
    /\ EnqueueOrderAndFlag
    /\ [](RecordReturned =>
            (EnqueuedByInvocation <=> job.puuid \in BodyPuuids(job.mid)))

\* C33: the order and the flag as above; an invocation that has returned has
\* enqueued no job when the originating player is not among the participants
\* of the body, and when the player is among them it has enqueued the job
\* unless the submission of the job raised, in which case it has enqueued
\* none and timeline_synced is false.
C33_EnqueuedIffParticipantAndSubmitted ==
    /\ EnqueueOrderAndFlag
    /\ [](RecordReturned =>
            /\ job.puuid \notin BodyPuuids(job.mid) =>
                  job.enqueue = None /\ ~ EnqueuedByInvocation
            /\ job.puuid \in BodyPuuids(job.mid) =>
                  /\ job.enqueue \in {"ok", "error"}
                  /\ EnqueuedByInvocation <=> job.enqueue = "ok")

\* An invocation for M2 on behalf of P1 has returned after writing the Match
\* row and P1's participant row over a queue that held a job already, and has
\* enqueued the sub-record job of M2.
C33_Witness ==
    /\ RecordReturned /\ job.mid = "M2" /\ job.puuid = "P1"
    /\ pre.queue # << >>
    /\ EnqueuedByInvocation /\ job.timeline_synced
    /\ RecordAndParticipantsStored

(***************************************************************************)
(* The remote id listing (SpecListing).                                    *)
(***************************************************************************)
\* C34: the list returned for a target year holds only ids of matches that
\* were created in that year.
C34_ListingOnlyTargetYear ==
    (listing.pc = "done" /\ listing.year # 0) =>
        \A i \in 1..Len(listing.result) :
            YearOfMatch(listing.result[i]) = listing.year

\* The call in progress or just ended went through the pagination.
PaginatedCall ==
    /\ listing.pc # "idle"
    /\ Paginates(listing.year, listing.count, listing.max_matches)

\* The ids of the pages received, in the order of the requests.
RECURSIVE ConcatPages(_)
ConcatPages(reqs) ==
    IF reqs = << >> THEN << >>
    ELSE reqs[1].page \o ConcatPages(Tail(reqs))

FullPage(req) ==
    req.outcome = "ok" /\ Len(req.page) = req.count

\* C40: the pagination ends (it returns or the error of a request leaves
\* it); no request asks for more than 100 ids or for none; every request but
\* the last one was answered with as many ids as it asked for, and the
\* function goes on after a page only if the page was full, so it stops at
\* the first empty or short page; the ids collected are the pages in the
\* order received and are never more than max_matches; the function returns
\* them, and it returns after a full page only when max_matches is reached.
C40_PaginationTerminatesWithinLimits ==
    /\ [](PaginatedCall =>
            LET reqs == listing.requests
                last == reqs[Len(reqs)]
            IN  /\ \A i \in 1..Len(reqs) :
                      reqs[i].count >= 1 /\ reqs[i].count <= page_batch_size
                /\ \A i \in 1..(Len(reqs) - 1) : FullPage(reqs[i])
                /\ listing.all_match_ids = ConcatPages(reqs)
                /\ listing.start = Len(listing.all_match_ids)
                /\ Len(listing.all_match_ids) <= listing.max_matches
                /\ (listing.pc = "loop" /\ reqs # << >>) => FullPage(last)
                /\ listing.pc = "done" =>
                      /\ listing.result = listing.all_match_ids
                      /\ Len(listing.result) <= listing.max_matches
                      /\ (reqs = << >> \/ FullPage(last)) =>
                            Len(listing.result) = listing.max_matches)
    /\ (listing.pc = "loop" ~> listing.pc \in {"done", "raised"})

\* A listing with max_matches 150 over a history of 250 matches has returned
\* after two requests, of 100 and of 50 ids.
C40_Witness ==
    /\ PaginatedCall /\ listing.pc = "done"
    /\ listing.max_matches = 150
    /\ Len(listing.requests) = 2
    /\ listing.requests[1].count = 100 /\ listing.requests[2].count = 50
    /\ Len(listing.result) = 150

(***************************************************************************)
(* The counters of the aggregate rows (SpecAgg).                           *)
(***************************************************************************)
\* C35: no step lowers a counter of an aggregate row that exists before and
\* after the step.
C35_CountersMonotonic ==
    [][\A s \in statsTbl : \A t \in statsTbl' :
          (t.summoner = s.summoner /\ t.year = s.year) =>
              \A f \in CounterFields : t[f] >= s[f]]_vars

(***************************************************************************)
(* The recovery run over a partly filled store (SpecRun).                  *)
(***************************************************************************)
\* Nothing is missing for the ids of the run: every id has a Match row and
\* every such row has a MatchTimeline row.
NoGapLeft ==
    \A m \in Range(run.match_ids) :
        /\ \E r \in matchTbl : r.match_id = m
        /\ \A r \in matchTbl :
              r.match_id = m => \E t \in timelineTbl : t.match = r.pk

\* The run or one of its jobs has failed: a step of the run raised, a job
\* could not be submitted or a job ended without success.
RunOrJobFailed ==
    \/ run.pc = "failed"
    \/ run.queued_failed
    \/ \E j \in DOMAIN rjobs : rjobs[j].st \in {"failed", "none"}

NoRepeatedIds(q) ==
    Cardinality(Range(q)) = Len(q)

TotalMatchesOf(sums, stats, p) ==
    LET rows == {s \in stats : \E sm \in sums :
                    sm.puuid = p /\ s.summoner = sm.pk /\ s.year = DEFAULT_MATCH_YEAR}
    IN  IF rows = {} THEN 0 ELSE (CHOOSE s \in rows : TRUE).total_matches

\* C38: the step that makes the incremental update of a participant, failed
\* or not, leaves the Match, Summoner and MatchParticipant rows as they are
\* and goes on to the next entry of the body; an invocation in which an
\* update failed and no other error occurred returns success, with the
\* Match row and the participant row of every player of the body stored,
\* every player of the body counted as processed, the aggregate of each
\* player whose update did not fail incremented once and the aggregate of
\* each player whose update failed as it was.
C38_IncrementFailureSwallowed ==
    /\ [][(job.task = "match" /\ job.pc = "incr") =>
            /\ job'.pc = "part" /\ job'.idx = job.idx + 1
            /\ UNCHANGED <<matchTbl, summonerTbl, partTbl>>]_vars
    /\ [](job.task = "match" /\ job.incr_failed # {} =>
            /\ job.incr_failed \subseteq BodyPuuids(job.mid)
            /\ job.pc = "done" =>
                  \/ job.err \in StoreOutcomes \ {"ok"}
                  \/ /\ job.success /\ job.err = None
                     /\ RecordAndParticipantsStored
                     /\ job.count = Cardinality(BodyPuuids(job.mid))
                     /\ \A p \in BodyPuuids(job.mid) :
                           TotalMatchesOf(summonerTbl, statsTbl, p) =
                               TotalMatchesOf(pre.summoners, pre.stats, p)
                                 + (IF p \in job.incr_failed THEN 0 ELSE 1))

\* The invocation for M1 has returned success after the update of its first
\* participant, P1, failed and the update of P2 was made.
C38_Witness ==
    /\ RecordReturned /\ job.mid = "M1"
    /\ job.incr_failed = {"P1"}
    /\ TotalMatchesOf(summonerTbl, statsTbl, "P2") = 1
    /\ TotalMatchesOf(summonerTbl, statsTbl, "P1") = 0
    /\ RecordAndParticipantsStored

(***************************************************************************)
(* The stored identities under the record processor (SpecRun).             *)
(***************************************************************************)
\* The step is the execution of a record job by a worker.
RecordJobExecuted ==
    \E j \in DOMAIN rjobs :
        /\ rjobs[j].kind = "match" /\ rjobs[j].st = "queued"
        /\ rjobs'[j].st # "queued"

\* C39: the execution of a record job leaves every Summoner row that was
\* stored before it as it was, field by field, and every row it adds is a
\* placeholder row of a participant of the record whose puuid had no row.
C39_StoredIdentityUntouched ==
    [][RecordJobExecuted =>
          /\ summonerTbl \subseteq summonerTbl'
          /\ \A r \in summonerTbl' \ summonerTbl :
                /\ r.name = "Unknown" /\ r.tag_line = None
                /\ r.summoner_id = r.puuid
                /\ \A q \in summonerTbl : q.puuid # r.puuid]_vars

\* A record job of the player's run has been executed with success: the
\* identity row of the player, who is a participant of the record, holds the
\* name and tag line the identity step stored, and the other participant
\* has a placeholder row.
C39_Witness ==
    /\ \E j \in DOMAIN rjobs : rjobs[j].kind = "match" /\ rjobs[j].st = "ok"
    /\ \E r \in summonerTbl :
          /\ r.puuid = AccountData.puuid
          /\ r.name = GameName /\ r.tag_line = TagLine
          /\ \E p \in partTbl : p.summoner = r.pk
    /\ \E r \in summonerTbl : r.puuid = "P2" /\ r.name = "Unknown"

====
